---- MODULE Spec2Model ----
(***************************************************************************)
(* Shadowfront teams bot (src/bot.py): the events and rosters tables, the  *)
(* roster logic (add_participant, promote_one_non_commander, the commander *)
(* commands, reset) and the handlers that call it, with the points where a *)
(* handler awaits and another handler may run.                             *)
(*                                                                         *)
(* One guild.  An event's name is identified with its AUTOINCREMENT id.    *)
(* The rosters table is a sequence in rowid order: an INSERT appends (the  *)
(* new rowid is the largest rowid plus one), an UPDATE keeps the position, *)
(* a DELETE removes the row.                                               *)
(*                                                                         *)
(* Not modelled: the commands that change labels, time slots and the       *)
(* display channel, /roster, /export, /event_deleteall and /sync.  A reply *)
(* (interaction.response.send_message) changes no state.                   *)
(***************************************************************************)
EXTENDS Integers, Sequences, FiniteSets, Bags, TLC

\* ---------------------------------------------------------------- bounds
MaxClock == 1          \* time.time() values are 0..MaxClock
MaxInFlight == 2       \* handlers suspended in fetch_message or send at a time
MaxMessages == 2       \* roster messages ever posted to the channel
MaxHours == 10         \* hours that pass while the weekly refresh task runs

Users == {1, 2, 3}     \* guild members (Discord user ids)
Players == {1, 2}      \* the members who join, leave and are made commanders
EventIds == {1}        \* events created
Creator == 1           \* the member who runs /event_create
Admins == {3}          \* members with the Manage Server permission
Teams == {"A", "B"}
Squads == {"SA", "SB"}
NULL == "NULL"         \* SQL NULL / Python None

\* ------------------------------------------------------------- the tables
\* rosters row, init_db
Row(e, u, team, squad, slot_type, is_commander, joined_at) ==
    [event_id |-> e, user_id |-> u, team |-> team, squad |-> squad,
     slot_type |-> slot_type, is_commander |-> is_commander,
     joined_at |-> joined_at]

\* events row, init_db / event_create (the columns the roster logic and the
\* weekly refresh read).  The INSERT of event_create leaves the auto_refresh
\* columns to their defaults; auto_refresh_last_epoch NULL is written 0, as
\* the task reads it (`or 0`).
EventRow(id, a_size, b_size, a_cmdrs, b_cmdrs, backup_size, teams, channel) ==
    [id |-> id, status |-> "open", teams |-> teams, backup_size |-> backup_size,
     squad_a_size |-> a_size, squad_b_size |-> b_size,
     squad_a_commander_quota |-> a_cmdrs, squad_b_commander_quota |-> b_cmdrs,
     created_by |-> Creator,
     display_channel_id |-> channel, display_message_id |-> 0,
     auto_refresh_enabled |-> 1, auto_refresh_day |-> "MON",
     auto_refresh_hour |-> 9, auto_refresh_tz |-> "Australia/Brisbane",
     auto_refresh_last_epoch |-> 0]

VARIABLES
    events,     \* events table: sequence of rows, events[i].id = i
    rosters,    \* rosters table (committed), rowid order
    managers,   \* managers table: set of <<event_id, user_id>>
    now,        \* int(time.time())
    txn,        \* the open write transaction of a suspended /event_reset
    inflight,   \* handlers suspended in refresh_roster_message
    channel,    \* live roster messages in the display channel (Discord side)
    posted,     \* number of messages ever posted (message ids are 1..posted)
    last        \* the handler segment that ran last, and its outcome

vars == <<events, rosters, managers, now, txn, inflight, channel, posted, last>>

\* ------------------------------------------------------------ sequences
RECURSIVE SelectIdx(_, _, _)
\* indices i >= k of r with r[i] in the set of rows S, in order
SelectIdx(r, S, k) ==
    IF k > Len(r) THEN <<>>
    ELSE IF r[k] \in S THEN <<k>> \o SelectIdx(r, S, k + 1)
    ELSE SelectIdx(r, S, k + 1)

RowsOf(r) == {r[i] : i \in DOMAIN r}

\* ------------------------------------------------------- database helpers
\* Faulty variant of user_enrollment: the lookup never finds the user's row.
user_enrollment_none(r, event_id, user_id) == <<>>

\* SELECT * FROM rosters WHERE event_id=? AND user_id=?, fetchone():
\* <<>> for None, <<row>> for a row
user_enrollment(r, event_id, user_id) ==
    LET hit == SelectIdx(r, {x \in RowsOf(r) :
                   x.event_id = event_id /\ x.user_id = user_id}, 1)
    IN IF hit = <<>> THEN <<>> ELSE <<r[hit[1]]>>

count_mains(r, event_id, team, squad, commanders_only, non_commanders_only) ==
    Cardinality({i \in DOMAIN r :
        /\ r[i].slot_type = "main" /\ r[i].team = team /\ r[i].event_id = event_id
        /\ (squad # NULL => r[i].squad = squad)
        /\ (commanders_only => r[i].is_commander = 1)
        /\ (non_commanders_only => r[i].is_commander = 0)})

\* Faulty variant of count_backups: the team filter selects the other team.
count_backups_other_team(r, event_id, team) ==
    Cardinality({i \in DOMAIN r :
        r[i].slot_type = "backup" /\ r[i].team # team /\ r[i].event_id = event_id})

count_backups(r, event_id, team) ==
    Cardinality({i \in DOMAIN r :
        r[i].slot_type = "backup" /\ r[i].team = team /\ r[i].event_id = event_id})

\* get_roster: the user ids each of the five queries selects (the order of the
\* lists, ORDER BY joined_at, is left out)
get_roster(r, event_id, team) ==
    LET sel(slot_type, squad, is_commander) ==
            {r[i].user_id : i \in {j \in DOMAIN r :
                /\ r[j].event_id = event_id /\ r[j].team = team
                /\ r[j].slot_type = slot_type
                /\ (slot_type = "main" =>
                       r[j].squad = squad /\ r[j].is_commander = is_commander)}}
    IN [commanders_sa |-> sel("main", "SA", 1),
        mains_sa      |-> sel("main", "SA", 0),
        commanders_sb |-> sel("main", "SB", 1),
        mains_sb      |-> sel("main", "SB", 0),
        backups       |-> sel("backup", NULL, 0)]

get_team_counts(r, ev, team) ==
    [commanders_sa |-> count_mains(r, ev.id, team, "SA", TRUE, FALSE),
     mains_sa      |-> count_mains(r, ev.id, team, "SA", FALSE, TRUE),
     commanders_sb |-> count_mains(r, ev.id, team, "SB", TRUE, FALSE),
     mains_sb      |-> count_mains(r, ev.id, team, "SB", FALSE, TRUE),
     backups       |-> count_backups(r, ev.id, team)]

Max0(x) == IF x > 0 THEN x ELSE 0

\* Faulty variant of non_commander_cap: the commander quota is not subtracted.
non_commander_cap_no_quota(ev, squad_code) ==
    IF squad_code = "SA" THEN Max0(ev.squad_a_size) ELSE Max0(ev.squad_b_size)

non_commander_cap(ev, squad_code) ==
    IF squad_code = "SA"
    THEN Max0(ev.squad_a_size - ev.squad_a_commander_quota)
    ELSE Max0(ev.squad_b_size - ev.squad_b_commander_quota)

\* PRIMARY KEY(event_id, user_id) of rosters
KeyFree(r, row) ==
    \A i \in DOMAIN r : ~(r[i].event_id = row.event_id /\ r[i].user_id = row.user_id)

\* Faulty variant of sql_update: the WHERE clause has no user_id condition.
sql_update_every_user(r, event_id, user_id, slot_type, squad, is_commander) ==
    [i \in DOMAIN r |->
        IF r[i].event_id = event_id
        THEN [r[i] EXCEPT !.slot_type = slot_type, !.squad = squad,
                          !.is_commander = is_commander]
        ELSE r[i]]

\* UPDATE rosters SET ... WHERE event_id=? AND user_id=?
sql_update(r, event_id, user_id, slot_type, squad, is_commander) ==
    [i \in DOMAIN r |->
        IF r[i].event_id = event_id /\ r[i].user_id = user_id
        THEN [r[i] EXCEPT !.slot_type = slot_type, !.squad = squad,
                          !.is_commander = is_commander]
        ELSE r[i]]

\* DELETE FROM rosters WHERE event_id=? AND user_id=?
sql_delete(r, event_id, user_id) ==
    LET keep == SelectIdx(r, {x \in RowsOf(r) :
                    ~(x.event_id = event_id /\ x.user_id = user_id)}, 1)
    IN [k \in 1..Len(keep) |-> r[keep[k]]]

\* ------------------------------------------------------------ roster logic
\* The outcome of the transaction part of a handler: the table as the handler
\* leaves it, what it returns, and whether it executed an INSERT, UPDATE or
\* DELETE (which takes the database's write lock).
Outcome(r, slot_type, note, wrote) ==
    [r |-> r, slot_type |-> slot_type, note |-> note, uid |-> 0, wrote |-> wrote]

\* c.execute("INSERT INTO rosters ..."); return (slot_type, "joined")
InsertAndReturn(r, row, slot_type) ==
    IF KeyFree(r, row)
    THEN Outcome(Append(r, row), slot_type, "joined", TRUE)
    ELSE Outcome(r, "", "IntegrityError", TRUE)

\* Faulty variant of can_join_non_cmd: the comparison is off by one.
can_join_non_cmd_off_by_one(r, ev, team, target_squad) ==
    count_mains(r, ev.id, team, target_squad, FALSE, TRUE)
        <= non_commander_cap(ev, target_squad)

\* Faulty variant of can_join_non_cmd: squad B never has room.
can_join_non_cmd_sa_only(r, ev, team, target_squad) ==
    /\ target_squad = "SA"
    /\ count_mains(r, ev.id, team, target_squad, FALSE, TRUE)
           < non_commander_cap(ev, target_squad)

can_join_non_cmd(r, ev, team, target_squad) ==
    count_mains(r, ev.id, team, target_squad, FALSE, TRUE)
        < non_commander_cap(ev, target_squad)

\* Faulty variant of add_participant_slot: a requested squad at its cap falls
\* through to the order squad A, squad B, backup.
add_participant_slot_chain(r, ev, user_id, team, squad, force_backup, t) ==
    LET backups  == get_team_counts(r, ev, team).backups
        main(sq) == Row(ev.id, user_id, team, sq, "main", 0, t)
        backup   == Row(ev.id, user_id, team, NULL, "backup", 0, t)
    IN  IF force_backup THEN
            IF backups < ev.backup_size
            THEN InsertAndReturn(r, backup, "backup")
            ELSE Outcome(r, "", "backups_full", FALSE)
        ELSE IF squad \in {"SA", "SB"} /\ can_join_non_cmd(r, ev, team, squad)
            THEN InsertAndReturn(r, main(squad), "main")
        ELSE IF can_join_non_cmd(r, ev, team, "SA")
            THEN InsertAndReturn(r, main("SA"), "main")
        ELSE IF can_join_non_cmd(r, ev, team, "SB")
            THEN InsertAndReturn(r, main("SB"), "main")
        ELSE IF backups < ev.backup_size
            THEN InsertAndReturn(r, backup, "backup")
        ELSE Outcome(r, "", "full", FALSE)

\* Faulty variant of add_participant_slot: force_backup is not looked at.
add_participant_slot_no_force(r, ev, user_id, team, squad, force_backup, t) ==
    LET backups  == get_team_counts(r, ev, team).backups
        main(sq) == Row(ev.id, user_id, team, sq, "main", 0, t)
        backup   == Row(ev.id, user_id, team, NULL, "backup", 0, t)
    IN  IF squad \in {"SA", "SB"} THEN
            IF can_join_non_cmd(r, ev, team, squad)
            THEN InsertAndReturn(r, main(squad), "main")
            ELSE IF backups < ev.backup_size
            THEN InsertAndReturn(r, backup, "backup")
            ELSE Outcome(r, "", "full_chosen", FALSE)
        ELSE IF can_join_non_cmd(r, ev, team, "SA")
            THEN InsertAndReturn(r, main("SA"), "main")
        ELSE IF can_join_non_cmd(r, ev, team, "SB")
            THEN InsertAndReturn(r, main("SB"), "main")
        ELSE IF backups < ev.backup_size
            THEN InsertAndReturn(r, backup, "backup")
        ELSE Outcome(r, "", "full", FALSE)

\* add_participant from the counts on: the slot a user with no entry gets in
\* an open event
add_participant_slot(r, ev, user_id, team, squad, force_backup, t) ==
    LET backups  == get_team_counts(r, ev, team).backups
        main(sq) == Row(ev.id, user_id, team, sq, "main", 0, t)
        backup   == Row(ev.id, user_id, team, NULL, "backup", 0, t)
    IN  IF force_backup THEN
            IF backups < ev.backup_size
            THEN InsertAndReturn(r, backup, "backup")
            ELSE Outcome(r, "", "backups_full", FALSE)
        ELSE IF squad \in {"SA", "SB"} THEN
            IF can_join_non_cmd(r, ev, team, squad)
            THEN InsertAndReturn(r, main(squad), "main")
            ELSE IF backups < ev.backup_size
            THEN InsertAndReturn(r, backup, "backup")
            ELSE Outcome(r, "", "full_chosen", FALSE)
        ELSE IF can_join_non_cmd(r, ev, team, "SA")
            THEN InsertAndReturn(r, main("SA"), "main")
        ELSE IF can_join_non_cmd(r, ev, team, "SB")
            THEN InsertAndReturn(r, main("SB"), "main")
        ELSE IF backups < ev.backup_size
            THEN InsertAndReturn(r, backup, "backup")
        ELSE Outcome(r, "", "full", FALSE)

\* Faulty variant of add_participant: the event's status is not looked at.
add_participant_any_status(r, ev, user_id, team, squad, force_backup, t) ==
    LET existing == user_enrollment(r, ev.id, user_id)
    IN  IF existing # <<>> THEN
            IF existing[1].team = team
            THEN Outcome(r, existing[1].slot_type, "already", FALSE)
            ELSE Outcome(r, "", "other_team", FALSE)
        ELSE add_participant_slot(r, ev, user_id, team, squad, force_backup, t)

add_participant(r, ev, user_id, team, squad, force_backup, t) ==
    LET existing == user_enrollment(r, ev.id, user_id)
    IN  IF ev.status # "open" THEN Outcome(r, "", "locked", FALSE)
        ELSE IF existing # <<>> THEN
            IF existing[1].team = team
            THEN Outcome(r, existing[1].slot_type, "already", FALSE)
            ELSE Outcome(r, "", "other_team", FALSE)
        ELSE add_participant_slot(r, ev, user_id, team, squad, force_backup, t)

\* Faulty variant of first_backup: ORDER BY joined_at DESC.
first_backup_newest(r, event_id, team) ==
    LET b == {x \in RowsOf(r) :
                 x.event_id = event_id /\ x.team = team /\ x.slot_type = "backup"}
    IN {x.user_id : x \in {y \in b : \A z \in b : y.joined_at >= z.joined_at}}

\* Faulty variant of first_backup: the query has no team filter.
first_backup_any_team(r, event_id, team) ==
    LET b == {x \in RowsOf(r) : x.event_id = event_id /\ x.slot_type = "backup"}
    IN {x.user_id : x \in {y \in b : \A z \in b : y.joined_at <= z.joined_at}}

\* SELECT user_id FROM rosters WHERE event_id=? AND team=? AND slot_type='backup'
\* ORDER BY joined_at ASC LIMIT 1: the user ids the query can return.  SQL leaves
\* the order of rows with equal joined_at open, so each of them is possible.
first_backup(r, event_id, team) ==
    LET b == {x \in RowsOf(r) :
                 x.event_id = event_id /\ x.team = team /\ x.slot_type = "backup"}
    IN {x.user_id : x \in {y \in b : \A z \in b : y.joined_at <= z.joined_at}}

\* Faulty variant of promote_one_non_commander: the UPDATE does not set squad.
promote_one_non_commander_no_squad(r, ev, team, squad) ==
    IF count_mains(r, ev.id, team, squad, FALSE, TRUE) >= non_commander_cap(ev, squad)
    THEN {Outcome(r, "", "none", FALSE)}
    ELSE IF first_backup(r, ev.id, team) = {}
    THEN {Outcome(r, "", "none", FALSE)}
    ELSE {[Outcome(sql_update(r, ev.id, uid, "main", NULL, 0), "", "promoted", TRUE)
              EXCEPT !.uid = uid] : uid \in first_backup(r, ev.id, team)}

\* Faulty variant of promote_one_non_commander: the cap is not checked.
promote_one_non_commander_no_cap(r, ev, team, squad) ==
    IF first_backup(r, ev.id, team) = {}
    THEN {Outcome(r, "", "none", FALSE)}
    ELSE {[Outcome(sql_update(r, ev.id, uid, "main", squad, 0), "", "promoted", TRUE)
              EXCEPT !.uid = uid] : uid \in first_backup(r, ev.id, team)}

\* Faulty variant of promote_one_non_commander: the cap test is > instead of >=.
promote_one_non_commander_at_cap(r, ev, team, squad) ==
    IF count_mains(r, ev.id, team, squad, FALSE, TRUE) > non_commander_cap(ev, squad)
    THEN {Outcome(r, "", "none", FALSE)}
    ELSE IF first_backup(r, ev.id, team) = {}
    THEN {Outcome(r, "", "none", FALSE)}
    ELSE {[Outcome(sql_update(r, ev.id, uid, "main", squad, 0), "", "promoted", TRUE)
              EXCEPT !.uid = uid] : uid \in first_backup(r, ev.id, team)}

\* The set of outcomes (one per row the SELECT can return).
promote_one_non_commander(r, ev, team, squad) ==
    IF count_mains(r, ev.id, team, squad, FALSE, TRUE) >= non_commander_cap(ev, squad)
    THEN {Outcome(r, "", "none", FALSE)}
    ELSE IF first_backup(r, ev.id, team) = {}
    THEN {Outcome(r, "", "none", FALSE)}
    ELSE {[Outcome(sql_update(r, ev.id, uid, "main", squad, 0), "", "promoted", TRUE)
              EXCEPT !.uid = uid] : uid \in first_backup(r, ev.id, team)}

\* Faulty variant of leave_txn: a locked event refuses the leave.
leave_txn_open_only(r, ev, user_id) ==
    LET prior == user_enrollment(r, ev.id, user_id)
        r2    == sql_delete(r, ev.id, user_id)
    IN  IF ev.status # "open" THEN {Outcome(r, "", "locked", FALSE)}
        ELSE IF prior = <<>> THEN {Outcome(r, "", "not_registered", FALSE)}
        ELSE IF prior[1].slot_type = "main" /\ prior[1].is_commander = 0
                /\ prior[1].squad \in {"SA", "SB"}
        THEN {[o EXCEPT !.note = "left", !.wrote = TRUE] :
                 o \in promote_one_non_commander(r2, ev, prior[1].team, prior[1].squad)}
        ELSE {Outcome(r2, "", "left", TRUE)}

\* Faulty variant of leave_txn: the entry is deleted and nobody is promoted.
leave_txn_no_promote(r, ev, user_id) ==
    IF user_enrollment(r, ev.id, user_id) = <<>>
    THEN {Outcome(r, "", "not_registered", FALSE)}
    ELSE {Outcome(sql_delete(r, ev.id, user_id), "", "left", TRUE)}

\* The transaction of leave / RosterView._leave_common: the set of outcomes.
leave_txn(r, ev, user_id) ==
    LET prior == user_enrollment(r, ev.id, user_id)
        r2    == sql_delete(r, ev.id, user_id)
    IN  IF prior = <<>> THEN {Outcome(r, "", "not_registered", FALSE)}
        ELSE IF prior[1].slot_type = "main" /\ prior[1].is_commander = 0
                /\ prior[1].squad \in {"SA", "SB"}
        THEN {[o EXCEPT !.note = "left", !.wrote = TRUE] :
                 o \in promote_one_non_commander(r2, ev, prior[1].team, prior[1].squad)}
        ELSE {Outcome(r2, "", "left", TRUE)}

\* Faulty variant of setcommander_capacity: the quota test is > instead of >=.
setcommander_capacity_over_quota(r, ev, team, squad) ==
    LET n     == get_team_counts(r, ev, team)
        cmdrs == IF squad = "SA" THEN n.commanders_sa ELSE n.commanders_sb
        mains == IF squad = "SA" THEN n.mains_sa ELSE n.mains_sb
        quota == IF squad = "SA" THEN ev.squad_a_commander_quota
                                 ELSE ev.squad_b_commander_quota
        size  == IF squad = "SA" THEN ev.squad_a_size ELSE ev.squad_b_size
    IN  IF cmdrs > quota THEN "quota_full"
        ELSE IF cmdrs + mains >= size THEN "squad_full"
        ELSE ""

\* The capacity checks of event_setcommander: the rejection, "" for none.
setcommander_capacity(r, ev, team, squad) ==
    LET n     == get_team_counts(r, ev, team)
        cmdrs == IF squad = "SA" THEN n.commanders_sa ELSE n.commanders_sb
        mains == IF squad = "SA" THEN n.mains_sa ELSE n.mains_sb
        quota == IF squad = "SA" THEN ev.squad_a_commander_quota
                                 ELSE ev.squad_b_commander_quota
        size  == IF squad = "SA" THEN ev.squad_a_size ELSE ev.squad_b_size
    IN  IF cmdrs >= quota THEN "quota_full"
        ELSE IF cmdrs + mains >= size THEN "squad_full"
        ELSE ""

\* Faulty variant of setcommander_entry: the entry's team is not compared.
setcommander_entry_any_team(r, ev, team, squad, user_id, t) ==
    LET existing == user_enrollment(r, ev.id, user_id)
    IN  IF existing # <<>> THEN
            IF existing[1].slot_type = "backup"
            THEN Outcome(sql_update(r, ev.id, user_id, "main", squad, 1),
                         "", "from_backup", TRUE)
            ELSE IF existing[1].is_commander = 1 /\ existing[1].squad = squad
            THEN Outcome(r, "", "already_commander", FALSE)
            ELSE Outcome(sql_update(r, ev.id, user_id, existing[1].slot_type, squad, 1),
                         "", "set", TRUE)
        ELSE IF KeyFree(r, Row(ev.id, user_id, team, squad, "main", 1, t))
        THEN Outcome(Append(r, Row(ev.id, user_id, team, squad, "main", 1, t)),
                     "", "added", TRUE)
        ELSE Outcome(r, "", "IntegrityError", TRUE)

\* Faulty variant of setcommander_entry: a main keeps the squad it has.
setcommander_entry_keep_squad(r, ev, team, squad, user_id, t) ==
    LET existing == user_enrollment(r, ev.id, user_id)
    IN  IF existing # <<>> THEN
            IF existing[1].team # team THEN Outcome(r, "", "other_team", FALSE)
            ELSE IF existing[1].slot_type = "backup"
            THEN Outcome(sql_update(r, ev.id, user_id, "main", squad, 1),
                         "", "from_backup", TRUE)
            ELSE IF existing[1].is_commander = 1 /\ existing[1].squad = squad
            THEN Outcome(r, "", "already_commander", FALSE)
            ELSE Outcome(sql_update(r, ev.id, user_id, existing[1].slot_type,
                                    existing[1].squad, 1), "", "set", TRUE)
        ELSE IF KeyFree(r, Row(ev.id, user_id, team, squad, "main", 1, t))
        THEN Outcome(Append(r, Row(ev.id, user_id, team, squad, "main", 1, t)),
                     "", "added", TRUE)
        ELSE Outcome(r, "", "IntegrityError", TRUE)

\* Faulty variant of setcommander_entry: a commander of the squad is written
\* again.
setcommander_entry_rewrite(r, ev, team, squad, user_id, t) ==
    LET existing == user_enrollment(r, ev.id, user_id)
    IN  IF existing # <<>> THEN
            IF existing[1].team # team THEN Outcome(r, "", "other_team", FALSE)
            ELSE IF existing[1].slot_type = "backup"
            THEN Outcome(sql_update(r, ev.id, user_id, "main", squad, 1),
                         "", "from_backup", TRUE)
            ELSE Outcome(sql_update(r, ev.id, user_id, existing[1].slot_type, squad, 1),
                         "", "set", TRUE)
        ELSE IF KeyFree(r, Row(ev.id, user_id, team, squad, "main", 1, t))
        THEN Outcome(Append(r, Row(ev.id, user_id, team, squad, "main", 1, t)),
                     "", "added", TRUE)
        ELSE Outcome(r, "", "IntegrityError", TRUE)

\* event_setcommander from the lookup of the user's entry on.
setcommander_entry(r, ev, team, squad, user_id, t) ==
    LET existing == user_enrollment(r, ev.id, user_id)
    IN  IF existing # <<>> THEN
            IF existing[1].team # team THEN Outcome(r, "", "other_team", FALSE)
            ELSE IF existing[1].slot_type = "backup"
            THEN Outcome(sql_update(r, ev.id, user_id, "main", squad, 1),
                         "", "from_backup", TRUE)
            ELSE IF existing[1].is_commander = 1 /\ existing[1].squad = squad
            THEN Outcome(r, "", "already_commander", FALSE)
            ELSE Outcome(sql_update(r, ev.id, user_id, existing[1].slot_type, squad, 1),
                         "", "set", TRUE)
        ELSE IF KeyFree(r, Row(ev.id, user_id, team, squad, "main", 1, t))
        THEN Outcome(Append(r, Row(ev.id, user_id, team, squad, "main", 1, t)),
                     "", "added", TRUE)
        ELSE Outcome(r, "", "IntegrityError", TRUE)

\* The transaction of event_setcommander, after the manager check.
setcommander_txn(r, ev, team, squad, user_id, t) ==
    IF setcommander_capacity(r, ev, team, squad) # ""
    THEN Outcome(r, "", setcommander_capacity(r, ev, team, squad), FALSE)
    ELSE setcommander_entry(r, ev, team, squad, user_id, t)

\* Faulty variant of unset_target: the commander flag is not looked at.
unset_target_any_main(existing, team) ==
    /\ existing # <<>>
    /\ existing[1].team = team
    /\ existing[1].slot_type = "main"

\* event_unsetcommander's test of the target: a main commander of the team.
unset_target(existing, team) ==
    /\ existing # <<>>
    /\ existing[1].team = team
    /\ existing[1].is_commander = 1
    /\ existing[1].slot_type = "main"

\* Faulty variant of unset_fits: the comparison is < instead of <=.
unset_fits_strict(r, ev, team, squad) ==
    count_mains(r, ev.id, team, squad, FALSE, TRUE) + 1 < non_commander_cap(ev, squad)

\* current_non_cmd + 1 <= non_commander_cap(ev, squad)
unset_fits(r, ev, team, squad) ==
    count_mains(r, ev.id, team, squad, FALSE, TRUE) + 1 <= non_commander_cap(ev, squad)

\* Faulty variant of unset_demote: the UPDATE leaves squad as it is.
unset_demote_keep_squad(r, ev, team, user_id, demote_if_needed) ==
    IF demote_if_needed
    THEN IF count_backups(r, ev.id, team) < ev.backup_size
         THEN Outcome(sql_update(r, ev.id, user_id, "backup",
                                 user_enrollment(r, ev.id, user_id)[1].squad, 0),
                      "", "demoted", TRUE)
         ELSE Outcome(r, "", "backups_full", FALSE)
    ELSE Outcome(r, "", "mains_full", FALSE)

\* Faulty variant of unset_demote: demote_if_needed is not looked at.
unset_demote_always(r, ev, team, user_id, demote_if_needed) ==
    IF count_backups(r, ev.id, team) < ev.backup_size
    THEN Outcome(sql_update(r, ev.id, user_id, "backup", NULL, 0), "", "demoted", TRUE)
    ELSE Outcome(r, "", "backups_full", FALSE)

\* event_unsetcommander when the flag cannot be cleared in place.
unset_demote(r, ev, team, user_id, demote_if_needed) ==
    IF demote_if_needed
    THEN IF count_backups(r, ev.id, team) < ev.backup_size
         THEN Outcome(sql_update(r, ev.id, user_id, "backup", NULL, 0),
                      "", "demoted", TRUE)
         ELSE Outcome(r, "", "backups_full", FALSE)
    ELSE Outcome(r, "", "mains_full", FALSE)

\* Faulty variant of unsetcommander_txn: the in-place branch is missing.
unsetcommander_txn_demote_only(r, ev, team, user_id, demote_if_needed) ==
    LET existing == user_enrollment(r, ev.id, user_id)
    IN  IF ~unset_target(existing, team) THEN Outcome(r, "", "not_commander", FALSE)
        ELSE unset_demote(r, ev, team, user_id, demote_if_needed)

\* The transaction of event_unsetcommander, after the manager check.
unsetcommander_txn(r, ev, team, user_id, demote_if_needed) ==
    LET existing == user_enrollment(r, ev.id, user_id)
    IN  IF ~unset_target(existing, team) THEN Outcome(r, "", "not_commander", FALSE)
        ELSE LET squad == IF existing[1].squad = NULL THEN "SA" ELSE existing[1].squad
             IN  IF unset_fits(r, ev, team, squad)
                 THEN Outcome(sql_update(r, ev.id, user_id, existing[1].slot_type,
                                         existing[1].squad, 0), "", "unset", TRUE)
                 ELSE unset_demote(r, ev, team, user_id, demote_if_needed)

\* Faulty variant of reset_rosters: the DELETE has no WHERE clause.
reset_rosters_all(r, event_id) == <<>>

\* reset_event_roster: DELETE FROM rosters WHERE event_id=?
reset_rosters(r, event_id) ==
    LET keep == SelectIdx(r, {x \in RowsOf(r) : x.event_id # event_id}, 1)
    IN [k \in 1..Len(keep) |-> r[keep[k]]]

\* UPDATE events SET status=? WHERE id=?
set_status(evs, event_id, status) ==
    [i \in DOMAIN evs |->
        IF evs[i].id = event_id THEN [evs[i] EXCEPT !.status = status] ELSE evs[i]]

\* UPDATE events SET display_message_id=? WHERE id=?
set_message_id(evs, event_id, mid) ==
    [i \in DOMAIN evs |->
        IF evs[i].id = event_id THEN [evs[i] EXCEPT !.display_message_id = mid]
        ELSE evs[i]]

\* Faulty variant of db: the commit sits in the finally clause.
db_commit_in_finally(committed, working, raised) == working

\* The context manager db(): `yield conn; conn.commit()` inside try, and
\* `finally: conn.close()`.  committed is the database before the block, working
\* what the block's statements made of it; when the block raises, commit() is
\* skipped and close() discards the connection's open transaction.
db(committed, working, raised) == IF raised THEN committed ELSE working

\* ------------------------------------------------------------ permissions
is_manager(mgrs, evs, event_id, user_id) ==
    \/ <<event_id, user_id>> \in mgrs
    \/ \E i \in DOMAIN evs : evs[i].id = event_id /\ evs[i].created_by = user_id

\* Faulty variant of user_is_event_manager_or_admin: the permission test is
\* passed by every member of the guild.
user_is_event_manager_or_admin_any_member(mgrs, evs, ev, member) ==
    \/ member \in Users
    \/ is_manager(mgrs, evs, ev.id, member)

user_is_event_manager_or_admin(mgrs, evs, ev, member) ==
    \/ member \in Admins
    \/ is_manager(mgrs, evs, ev.id, member)

\* ------------------------------------------------------------- the state
\* 1970-01-05 00:00 UTC, a Monday
WeekStart == 4 * 86400

\* The handler that wrote to the rosters table or an event's status last: its
\* name, the user it was about and, for a promotion, the promoted user.  A
\* handler that only replies leaves no trace in the state.
Last(op, user, uid) == [op |-> op, user |-> user, uid |-> uid]

NoTxn == [pc |-> "idle", e |-> 0, mid |-> 0]

TxnOpen == txn.pc # "idle"

\* The arguments /event_create is called with:
\* <<squad_a_size, squad_b_size, squad_a_cmdrs, squad_b_cmdrs, backup_size, teams, channel>>
CreateInputs ==
    { <<2, 1, 1, 0, 1, 2, 0>>,      \* two teams, a commander slot in squad A
      <<2, 0, 1, 0, 2, 1, 0>>,      \* one team, squad A only, two backups
      <<1, 1, 1, 1, 0, 1, 0>>,      \* one team, commander slots only
      <<1, 1, -1, 2, 1, 1, 0>>,     \* one team, quotas outside 0..size
      <<2, 0, 2, 0, 0, 1, 0>>,      \* one team, two commander slots in squad A
      <<0, 0, 0, 0, 0, 1, 1>>,      \* no slots, live roster message in a channel
      <<1, 1, 0, 0, -1, 1, 0>>,     \* refused: negative size
      <<1, 1, 0, 0, 1, 3, 0>> }     \* refused: teams

Init ==
    /\ events = <<>>
    /\ rosters = <<>>
    /\ managers = {}
    /\ now = 0
    /\ txn = NoTxn
    /\ inflight = EmptyBag
    /\ channel = {}
    /\ posted = 0
    /\ last = Last("init", 0, 0)

\* ---------------------------------------------- refresh_roster_message
\* refresh_roster_message / ensure_roster_message up to its first await: the
\* handler reads the event row and suspends in channel.fetch_message (a message
\* id is stored) or in channel.send (none is).  No channel: nothing to await.
Suspended(evs, e) ==
    IF evs[e].display_channel_id = 0 THEN EmptyBag
    ELSE IF evs[e].display_message_id # 0
    THEN SetToBag({[pc |-> "fetch", e |-> e, mid |-> evs[e].display_message_id]})
    ELSE SetToBag({[pc |-> "send", e |-> e, mid |-> 0]})

Room == BagCardinality(inflight) < MaxInFlight

OneTask(t) == SetToBag({t})

\* msg = await channel.fetch_message(message_id) raises NotFound and the
\* handler goes on to channel.send, or it returns the message and the handler
\* goes on to msg.edit, which changes the rendered embed only: the handler has
\* no further effect on the state.
FetchDone(t) ==
    /\ t.pc = "fetch"
    /\ inflight' = IF t.mid \in channel THEN inflight (-) OneTask(t)
                   ELSE (inflight (-) OneTask(t))
                            (+) OneTask([pc |-> "send", e |-> t.e, mid |-> 0])
    /\ UNCHANGED <<events, rosters, managers, now, txn, channel, posted, last>>

\* msg = await channel.send(...) returns; UPDATE events SET display_message_id,
\* which fails with "database is locked" while a reset holds the write lock
SendDone(t) ==
    /\ t.pc = "send"
    /\ posted < MaxMessages
    /\ posted' = posted + 1
    /\ channel' = channel \cup {posted + 1}
    /\ inflight' = inflight (-) OneTask(t)
    /\ events' = IF TxnOpen THEN events
                 ELSE set_message_id(events, t.e, posted + 1)
    /\ UNCHANGED <<rosters, managers, now, txn, last>>

\* ------------------------------------------------------------- handlers
\* A handler from its `with db() as conn:` to the first await after it.  out is
\* what its transaction did; a handler that needs the write lock while a
\* suspended /event_reset holds it fails with "database is locked" (the wait
\* blocks the event loop, so the holder cannot release meanwhile).  Otherwise
\* the transaction commits and, if the handler goes on to it, the refresh starts.
Handle(op, e, user, out, refresh) ==
    /\ Room
    /\ IF out.wrote /\ TxnOpen
       THEN UNCHANGED <<rosters, inflight, last>>
       ELSE /\ rosters' = out.r
            /\ inflight' = IF refresh THEN inflight (+) Suspended(events, e) ELSE inflight
            /\ last' = IF ~out.wrote THEN last
                       ELSE IF out.note = "IntegrityError"
                       THEN Last("IntegrityError", user, 0)
                       ELSE Last(op, user, out.uid)
    /\ UNCHANGED <<events, managers, now, txn, channel, posted>>

\* A handler that replies without executing a write: no variable changes.
Refuse == UNCHANGED vars

\* RosterView._join_auto: the button exists for team B only with two teams
JoinAuto(e, u, team) ==
    /\ e \in DOMAIN events
    /\ team = "B" => events[e].teams >= 2
    /\ LET out == add_participant(rosters, events[e], u, team, NULL, FALSE, now)
       IN Handle("_join_auto", e, u, out, out.slot_type # "")

\* RosterView._join_backup
JoinBackup(e, u, team) ==
    /\ e \in DOMAIN events
    /\ team = "B" => events[e].teams >= 2
    /\ LET out == add_participant(rosters, events[e], u, team, NULL, TRUE, now)
       IN Handle("_join_backup", e, u, out, out.slot_type # "")

\* The with db() block of /join: squad = NULL stands for a call
\* without the squad argument, for which the parameter's default "SA" is used.
join_txn(r, ev, user_id, team, squad, t) ==
    LET given == IF squad = NULL THEN "SA" ELSE squad
        requested_squad == IF given \in {"SA", "SB"} THEN given ELSE NULL
    IN add_participant(r, ev, user_id, team, requested_squad, FALSE, t)

\* What the Join handlers tell the requester: the note when add_participant
\* returns an empty slot_type, else "joined as backup" or "joined as main"
\* (the note of a non-empty slot_type is not looked at).
join_reply(out) ==
    IF out.slot_type = "" THEN out.note
    ELSE IF out.slot_type = "backup" THEN "Joined as backup"
    ELSE "Joined as main"

\* /join name team [squad]: the squad parameter defaults to "SA"
join(e, u, team, squad) ==
    /\ e \in DOMAIN events
    /\ LET out == join_txn(rosters, events[e], u, team, squad, now)
       IN Handle("join", e, u, out, out.slot_type # "")

\* /backup name team
backup(e, u, team) ==
    /\ e \in DOMAIN events
    /\ LET out == add_participant(rosters, events[e], u, team, NULL, TRUE, now)
       IN Handle("backup", e, u, out, out.slot_type # "")

\* /leave and RosterView._leave_common
leave(e, u) ==
    /\ e \in DOMAIN events
    /\ \E out \in leave_txn(rosters, events[e], u) :
          Handle("leave", e, u, out, out.note = "left")

\* /promote: replies and returns without a refresh when nobody was promoted
promote(e, actor, team, squad) ==
    /\ e \in DOMAIN events
    /\ IF ~user_is_event_manager_or_admin(managers, events, events[e], actor)
       THEN Refuse
       ELSE \E out \in promote_one_non_commander(rosters, events[e], team, squad) :
               Handle("promote", e, 0, out, out.uid # 0)

\* RosterView._mgr_promote: refreshes in either case
MgrPromote(e, actor, team, squad) ==
    /\ e \in DOMAIN events
    /\ team = "B" => events[e].teams >= 2
    /\ IF ~user_is_event_manager_or_admin(managers, events, events[e], actor)
       THEN Refuse
       ELSE \E out \in promote_one_non_commander(rosters, events[e], team, squad) :
               Handle("promote", e, 0, out, TRUE)

\* /event_lock, /event_unlock, RosterView._mgr_lock, RosterView._mgr_unlock
set_event_status(e, actor, status) ==
    /\ e \in DOMAIN events
    /\ Room
    /\ IF ~user_is_event_manager_or_admin(managers, events, events[e], actor)
       THEN Refuse
       ELSE IF TxnOpen
       THEN Refuse
       ELSE /\ events' = set_status(events, e, status)
            /\ inflight' = inflight (+) Suspended(events', e)
            /\ last' = Last(IF status = "locked" THEN "event_lock" ELSE "event_unlock", 0, 0)
            /\ UNCHANGED <<rosters, managers, now, txn, channel, posted>>

\* /event_setcommander
event_setcommander(e, actor, team, squad, user) ==
    /\ e \in DOMAIN events
    /\ IF ~user_is_event_manager_or_admin(managers, events, events[e], actor)
       THEN Refuse
       ELSE LET out == setcommander_txn(rosters, events[e], team, squad, user, now)
            IN Handle("event_setcommander", e, user, out, out.wrote)

\* /event_unsetcommander
event_unsetcommander(e, actor, team, user, demote_if_needed) ==
    /\ e \in DOMAIN events
    /\ IF ~user_is_event_manager_or_admin(managers, events, events[e], actor)
       THEN Refuse
       ELSE LET out == unsetcommander_txn(rosters, events[e], team, user, demote_if_needed)
            IN Handle("event_unsetcommander", e, user, out, out.wrote)

\* The commit of a reset: reset_event_roster's DELETE and UPDATE and, on the
\* clear_message path, UPDATE events SET display_message_id=NULL; then the
\* handler goes on to refresh_roster_message.
ResetCommit(e, clear) ==
    /\ rosters' = reset_rosters(rosters, e)
    /\ events' = IF clear THEN set_message_id(set_status(events, e, "open"), e, 0)
                 ELSE set_status(events, e, "open")
    /\ inflight' = inflight (+) Suspended(events', e)
    /\ txn' = NoTxn
    /\ last' = Last("reset", 0, 0)

\* /event_reset and RosterView._mgr_reset (clear_message is FALSE).  With
\* clear_message and a stored message the handler awaits channel.fetch_message
\* inside its `with db()` block, after reset_event_roster: its transaction
\* stays open while other handlers run.
event_reset(e, actor, clear_message) ==
    /\ e \in DOMAIN events
    /\ Room
    /\ IF ~user_is_event_manager_or_admin(managers, events, events[e], actor)
       THEN Refuse
       ELSE IF TxnOpen
       THEN Refuse
       ELSE IF clear_message /\ events[e].display_channel_id # 0
               /\ events[e].display_message_id # 0
       THEN /\ txn' = [pc |-> "fetch", e |-> e, mid |-> events[e].display_message_id]
            /\ UNCHANGED <<events, rosters, managers, now, inflight, channel, posted, last>>
       ELSE /\ ResetCommit(e, FALSE)
            /\ UNCHANGED <<managers, now, channel, posted>>

\* /event_reset resumes from channel.fetch_message: the message is there and
\* the handler awaits msg.delete(), or NotFound is swallowed and it commits.
ResetFetched ==
    /\ txn.pc = "fetch"
    /\ Room
    /\ IF txn.mid \in channel
       THEN /\ txn' = [txn EXCEPT !.pc = "delete"]
            /\ UNCHANGED <<events, rosters, managers, now, inflight, channel, posted, last>>
       ELSE /\ ResetCommit(txn.e, TRUE)
            /\ UNCHANGED <<managers, now, channel, posted>>

\* /event_reset resumes from msg.delete() and commits.
ResetDeleted ==
    /\ txn.pc = "delete"
    /\ Room
    /\ channel' = channel \ {txn.mid}
    /\ ResetCommit(txn.e, TRUE)
    /\ UNCHANGED <<managers, now, posted>>

\* /event_create; E bounds the events created
event_create(inp, E) ==
    LET squad_a_size == inp[1]
        squad_b_size == inp[2]
        backup_size  == inp[5]
        teams        == inp[6]
        id           == Len(events) + 1
        ev           == EventRow(id, inp[1], inp[2], inp[3], inp[4], inp[5], inp[6], inp[7])
    IN  /\ id \in E
        /\ Room
        /\ IF teams < 1 \/ teams > 2 THEN Refuse
           ELSE IF squad_a_size < 0 \/ squad_b_size < 0 \/ backup_size < 0 THEN Refuse
           ELSE IF TxnOpen THEN Refuse
           ELSE /\ events' = Append(events, ev)
                /\ managers' = managers \cup {<<id, Creator>>}
                /\ inflight' = inflight (+) Suspended(events', id)
                /\ UNCHANGED <<rosters, now, txn, channel, posted, last>>

\* get_event returns None: "Event not found."
EventNotFound(e) ==
    /\ e \notin DOMAIN events
    /\ Refuse

\* a second passes on the clock read by int(time.time())
Tick ==
    /\ now < MaxClock
    /\ now' = now + 1
    /\ UNCHANGED <<events, rosters, managers, txn, inflight, channel, posted, last>>

SquadArgs == {NULL, "SA", "SB"}

\* The steps of the bot with event configurations C, players P and event ids E.
Steps(C, P, E) ==
    \/ \E inp \in C : event_create(inp, E)
    \/ \E e \in E : EventNotFound(e)
    \/ \E e \in E, u \in P, team \in Teams : JoinAuto(e, u, team)
    \/ \E e \in E, u \in P, team \in Teams : JoinBackup(e, u, team)
    \/ \E e \in E, u \in P, team \in Teams, sq \in SquadArgs : join(e, u, team, sq)
    \/ \E e \in E, u \in P, team \in Teams : backup(e, u, team)
    \/ \E e \in E, u \in P : leave(e, u)
    \/ \E e \in E, a \in Users, team \in Teams, sq \in Squads : promote(e, a, team, sq)
    \/ \E e \in E, a \in Users, team \in Teams, sq \in Squads : MgrPromote(e, a, team, sq)
    \/ \E e \in E, a \in Users, st \in {"open", "locked"} : set_event_status(e, a, st)
    \/ \E e \in E, a \in Users, team \in Teams, sq \in Squads, u \in P :
          event_setcommander(e, a, team, sq, u)
    \/ \E e \in E, a \in Users, team \in Teams, u \in P, d \in BOOLEAN :
          event_unsetcommander(e, a, team, u, d)
    \/ \E e \in E, a \in Users, c \in BOOLEAN : event_reset(e, a, c)
    \/ ResetFetched
    \/ ResetDeleted
    \/ \E t \in BagToSet(inflight) : FetchDone(t)
    \/ \E t \in BagToSet(inflight) : SendDone(t)
    \/ Tick

Next == Steps(CreateInputs, Players, EventIds)

Spec == Init /\ [][Next]_vars

\* One team with a single main slot and a single backup slot, and a live roster
\* message: every handler that changes the roster suspends in its refresh, and
\* the next handler runs while it is suspended.
ConcurrentInputs == { <<1, 0, 0, 0, 1, 1, 1>> }

NextConcurrent == Steps(ConcurrentInputs, Players, EventIds)

SpecConcurrent == Init /\ [][NextConcurrent]_vars

\* Three players for one main slot and one backup slot (or the event with a
\* live roster message): more requesters than places.
MorePlayers == {1, 2, 3}

ThreeInputs == { <<1, 0, 0, 0, 1, 1, 0>>, <<0, 0, 0, 0, 0, 1, 1>> }

NextThree == Steps(ThreeInputs, MorePlayers, EventIds)

SpecThree == Init /\ [][NextThree]_vars

\* Three players for a commander slot, a main slot and two backup slots (or the
\* event with a live roster message): a commander can be demoted into a pool
\* that already holds a backup while the main slot is taken.
DemoteInputs == { <<2, 0, 1, 0, 2, 1, 0>>, <<0, 0, 0, 0, 0, 1, 1>> }

NextDemote == Steps(DemoteInputs, MorePlayers, EventIds)

SpecDemote == Init /\ [][NextDemote]_vars

\* The operations of the walk-through of Join, Join, Join, Leave: three players,
\* one event with squad A of size 2 with one commander slot, squad B of size 1
\* and one backup slot, the Join button, Leave and the clock.
ScenarioInputs == { <<2, 1, 1, 0, 1, 1, 0>> }

NextScenario ==
    \/ \E inp \in ScenarioInputs : event_create(inp, EventIds)
    \/ \E e \in EventIds, u \in MorePlayers, team \in Teams : JoinAuto(e, u, team)
    \/ \E e \in EventIds, u \in MorePlayers : leave(e, u)
    \/ Tick

SpecScenario == Init /\ [][NextScenario]_vars

\* Two events, each with one main slot and no commander or backup slot, or
\* with a live roster message, under the Join button, Leave, lock and unlock,
\* reset and the refresh of the message.  (/join writes to such events what the
\* Join button writes, and the commander, promotion and backup handlers find
\* no slot in them to write to.)
TwoEventIds == {1, 2}

TwoEventInputs == { <<1, 0, 0, 0, 0, 1, 0>>, <<0, 0, 0, 0, 0, 1, 1>> }

NextTwoEvents ==
    \/ \E inp \in TwoEventInputs : event_create(inp, TwoEventIds)
    \/ \E e \in TwoEventIds, u \in Players, team \in Teams : JoinAuto(e, u, team)
    \/ \E e \in TwoEventIds, u \in Players : leave(e, u)
    \/ \E e \in TwoEventIds, a \in Users, st \in {"open", "locked"} :
          set_event_status(e, a, st)
    \/ \E e \in TwoEventIds, a \in Users, c \in BOOLEAN : event_reset(e, a, c)
    \/ ResetFetched
    \/ ResetDeleted
    \/ \E t \in BagToSet(inflight) : FetchDone(t)
    \/ \E t \in BagToSet(inflight) : SendDone(t)
    \/ Tick

SpecTwoEvents == Init /\ [][NextTwoEvents]_vars

\* ------------------------------------------------------ weekly auto-refresh
\* The time zones the model knows, with their offset from UTC in hours
\* (neither has daylight saving time); ZoneInfo raises for any other name.
ValidZones == {"UTC", "Australia/Brisbane"}

utcoffset(tz) == IF tz = "Australia/Brisbane" THEN 10 ELSE 0

\* datetime.now(tz) as seconds of local time since 1970-01-01 00:00 local
now_local(t, tz) == t + utcoffset(tz) * 3600

\* map_weekday_name: 1970-01-01 was a Thursday
map_weekday_name(local) ==
    <<"THU", "FRI", "SAT", "SUN", "MON", "TUE", "WED">>[((local \div 86400) % 7) + 1]

\* now_local.hour
hour_of(local) == (local \div 3600) % 24

\* /event_setautorefresh name enable day hour tz
event_setautorefresh(e, actor, enable, day, hour, tz) ==
    /\ e \in DOMAIN events
    /\ IF day \notin {"MON", "TUE", "WED", "THU", "FRI", "SAT", "SUN"} THEN Refuse
       ELSE IF hour < 0 \/ hour > 23 THEN Refuse
       ELSE IF ~user_is_event_manager_or_admin(managers, events, events[e], actor)
       THEN Refuse
       ELSE IF tz \notin ValidZones THEN Refuse
       ELSE IF TxnOpen THEN Refuse
       ELSE /\ events' = [events EXCEPT ![e] =
                    [@ EXCEPT !.auto_refresh_enabled = IF enable THEN 1 ELSE 0,
                              !.auto_refresh_day = day,
                              !.auto_refresh_hour = hour,
                              !.auto_refresh_tz = tz]]
            /\ UNCHANGED <<rosters, managers, now, txn, inflight, channel, posted, last>>

\* target_hour = int(ev["auto_refresh_hour"] or 9)
target_hour(ev) == IF ev.auto_refresh_hour = 0 THEN 9 ELSE ev.auto_refresh_hour

\* One iteration of weekly_refresh_task's loop over the events, for an event
\* without display channel: refresh_roster_message returns without awaiting
\* (ensure_roster_message has no channel to post to), so the tests, the refresh
\* and the UPDATE of auto_refresh_last_epoch are one step.
weekly_refresh_task(e) ==
    /\ e \in DOMAIN events
    /\ events[e].display_channel_id = 0
    /\ LET ev    == events[e]
           tz    == IF ev.auto_refresh_tz \in ValidZones THEN ev.auto_refresh_tz
                    ELSE "Australia/Brisbane"
           local == now_local(now, tz)
           start_of_hour == now - (local % 3600)
       IN  IF ev.auto_refresh_enabled = 0 THEN Refuse
           ELSE IF map_weekday_name(local) # ev.auto_refresh_day THEN Refuse
           ELSE IF hour_of(local) # target_hour(ev) THEN Refuse
           ELSE IF ev.auto_refresh_last_epoch >= start_of_hour THEN Refuse
           ELSE IF TxnOpen THEN Refuse
           ELSE /\ events' = [events EXCEPT ![e].auto_refresh_last_epoch = start_of_hour]
                /\ last' = Last("weekly_refresh", 0, 0)
                /\ UNCHANGED <<rosters, managers, now, txn, inflight, channel, posted>>

\* an hour passes on the clock
HourPasses ==
    /\ now < WeekStart + MaxHours * 3600
    /\ now' = now + 3600
    /\ UNCHANGED <<events, rosters, managers, txn, inflight, channel, posted, last>>

\* The bot is up on a Monday at 00:00 UTC (10:00 in Brisbane) with no event.
InitAutoRefresh ==
    /\ events = <<>>
    /\ rosters = <<>>
    /\ managers = {}
    /\ now = WeekStart
    /\ txn = NoTxn
    /\ inflight = EmptyBag
    /\ channel = {}
    /\ posted = 0
    /\ last = Last("init", 0, 0)

\* The arguments /event_setautorefresh is called with
RefreshDays == {"MON", "TUE", "XXX"}
RefreshHours == {0, 5, 9, 24}
RefreshZones == {"UTC", "Australia/Brisbane", "Mars/Olympus"}

\* One event without display channel, its auto-refresh settings, the task and
\* the clock, hour by hour.
AutoRefreshInputs == { <<1, 0, 0, 0, 0, 1, 0>> }

NextAutoRefresh ==
    \/ \E inp \in AutoRefreshInputs : event_create(inp, EventIds)
    \/ \E e \in EventIds, a \in Users, en \in BOOLEAN, day \in RefreshDays,
          hour \in RefreshHours, tz \in RefreshZones :
          event_setautorefresh(e, a, en, day, hour, tz)
    \/ \E e \in EventIds : weekly_refresh_task(e)
    \/ HourPasses

SpecAutoRefresh == InitAutoRefresh /\ [][NextAutoRefresh]_vars

\* ---------------------------------------------------- handlers that raise
\* /leave or RosterView._leave_common raises inside its `with db()` block after
\* the DELETE: before promote_one_non_commander ("deleted") or after it
\* ("promoted").  The handler ends there: no refresh, no reply.
FailPoints == {"deleted", "promoted"}

leave_fails(e, u, at) ==
    /\ e \in DOMAIN events
    /\ ~TxnOpen
    /\ user_enrollment(rosters, e, u) # <<>>
    /\ \E out \in leave_txn(rosters, events[e], u) :
          LET working == IF at = "deleted" THEN sql_delete(rosters, e, u) ELSE out.r
          IN rosters' = db(rosters, working, TRUE)
    /\ last' = Last("failed", u, 0)
    /\ UNCHANGED <<events, managers, now, txn, inflight, channel, posted>>

\* /event_reset with clear_message: channel.fetch_message or msg.delete() raises
\* an exception other than NotFound and Forbidden (discord.HTTPException), inside
\* the `with db()` block and after reset_event_roster.  Whether Discord deleted
\* the message before msg.delete() raised is left out: the message stays.
reset_fails ==
    /\ txn.pc \in {"fetch", "delete"}
    /\ LET tables == db(<<rosters, events>>,
                        <<reset_rosters(rosters, txn.e), set_status(events, txn.e, "open")>>,
                        TRUE)
       IN rosters' = tables[1] /\ events' = tables[2]
    /\ txn' = NoTxn
    /\ last' = Last("failed", 0, 0)
    /\ UNCHANGED <<managers, now, inflight, channel, posted>>

\* One team with a main slot and a backup slot and a live roster message, under
\* the Join button, Leave, lock and unlock, reset and the refresh of the
\* message, where Leave and a reset that awaits Discord can raise.
NextFailure ==
    \/ \E inp \in ConcurrentInputs : event_create(inp, EventIds)
    \/ \E e \in EventIds, u \in Players, team \in Teams : JoinAuto(e, u, team)
    \/ \E e \in EventIds, u \in Players : leave(e, u)
    \/ \E e \in EventIds, u \in Players, at \in FailPoints : leave_fails(e, u, at)
    \/ \E e \in EventIds, a \in Users, st \in {"open", "locked"} :
          set_event_status(e, a, st)
    \/ \E e \in EventIds, a \in Users, c \in BOOLEAN : event_reset(e, a, c)
    \/ ResetFetched
    \/ ResetDeleted
    \/ reset_fails
    \/ \E t \in BagToSet(inflight) : FetchDone(t)
    \/ \E t \in BagToSet(inflight) : SendDone(t)
    \/ Tick

SpecFailure == Init /\ [][NextFailure]_vars

\* ============================================================= properties
\* The quantities the properties speak of, read off the tables directly.
NonCommanderMains(r, e, team, sq) ==
    {i \in DOMAIN r : r[i].event_id = e /\ r[i].team = team /\ r[i].squad = sq
                      /\ r[i].slot_type = "main" /\ r[i].is_commander = 0}

Commanders(r, e, team, sq) ==
    {i \in DOMAIN r : r[i].event_id = e /\ r[i].team = team /\ r[i].squad = sq
                      /\ r[i].slot_type = "main" /\ r[i].is_commander = 1}

Backups(r, e, team) ==
    {i \in DOMAIN r : r[i].event_id = e /\ r[i].team = team /\ r[i].slot_type = "backup"}

Entries(r, e, u) == {x \in RowsOf(r) : x.event_id = e /\ x.user_id = u}

squadSize(ev, sq) == IF sq = "SA" THEN ev.squad_a_size ELSE ev.squad_b_size

commanderQuota(ev, sq) ==
    IF sq = "SA" THEN ev.squad_a_commander_quota ELSE ev.squad_b_commander_quota

nonCommanderCap(ev, sq) ==
    IF squadSize(ev, sq) - commanderQuota(ev, sq) > 0
    THEN squadSize(ev, sq) - commanderQuota(ev, sq) ELSE 0

\* ---------------------------------------------------------------------- C1
\* C1: in every event, team and squad the number of non-commander main entries
\* is at most max(0, size - quota) of the squad, whatever handlers have run.
C1_NonCommanderCap ==
    \A e \in DOMAIN events, team \in Teams, sq \in Squads :
        Cardinality(NonCommanderMains(rosters, e, team, sq))
            <= nonCommanderCap(events[e], sq)

\* C1 witness: /event_unsetcommander has just turned a commander into a
\* non-commander main and the squad now holds exactly its cap (>= 1) of them.
C1_Witness ==
    /\ last.op = "event_unsetcommander"
    /\ \E e \in DOMAIN events, x \in RowsOf(rosters) :
          /\ x.event_id = e /\ x.user_id = last.user
          /\ x.slot_type = "main" /\ x.is_commander = 0 /\ x.squad \in Squads
          /\ nonCommanderCap(events[e], x.squad) >= 1
          /\ Cardinality(NonCommanderMains(rosters, e, x.team, x.squad))
                = nonCommanderCap(events[e], x.squad)

\* ---------------------------------------------------------------------- C2
\* C2: in every event, team and squad the number of commander entries is at
\* most the squad's commander quota.
C2_CommanderQuota ==
    \A e \in DOMAIN events, team \in Teams, sq \in Squads :
        Cardinality(Commanders(rosters, e, team, sq)) <= commanderQuota(events[e], sq)

\* ---------------------------------------------------------------------- C3
\* C3: a user has at most one entry per event (so never entries on two teams),
\* and no handler ever runs an INSERT into the rosters key constraint: the
\* handlers' own lookups keep a second entry from being attempted.
C3_OneEntryPerUser ==
    /\ \A i, j \in DOMAIN rosters :
          (rosters[i].event_id = rosters[j].event_id
           /\ rosters[i].user_id = rosters[j].user_id) => i = j
    /\ last.op # "IntegrityError"

\* C3 witness: two users hold entries on different teams of one event and
\* /event_setcommander has just written the entry of one of them.
C3_Witness ==
    /\ last.op = "event_setcommander"
    /\ \E x, y \in RowsOf(rosters) :
          /\ x.user_id = last.user /\ x.is_commander = 1
          /\ y.event_id = x.event_id /\ y.user_id # x.user_id /\ y.team # x.team

\* ---------------------------------------------------------------------- C4
\* C4: in every event and team the number of backup entries is at most
\* backup_size, and while the pool holds backup_size entries no Join (forced
\* or fallback) creates a backup entry and no /event_unsetcommander demotes.
C4_BackupCap ==
    \A e \in DOMAIN events, team \in Teams :
        /\ Cardinality(Backups(rosters, e, team)) <= events[e].backup_size
        /\ Cardinality(Backups(rosters, e, team)) >= events[e].backup_size =>
              /\ \A u \in Players, sq \in {NULL, "SA", "SB"}, fb \in BOOLEAN :
                    LET out == add_participant(rosters, events[e], u, team, sq, fb, now)
                    IN Cardinality(Backups(out.r, e, team))
                          = Cardinality(Backups(rosters, e, team))
              /\ \A u \in Players, d \in BOOLEAN :
                    LET out == unsetcommander_txn(rosters, events[e], team, u, d)
                    IN Cardinality(Backups(out.r, e, team))
                          = Cardinality(Backups(rosters, e, team))

\* C4 witness: /event_unsetcommander has just demoted a commander to backup and
\* the team's pool is now full.
C4_Witness ==
    /\ last.op = "event_unsetcommander"
    /\ \E e \in DOMAIN events, x \in RowsOf(rosters) :
          /\ x.event_id = e /\ x.user_id = last.user /\ x.slot_type = "backup"
          /\ Cardinality(Backups(rosters, e, x.team)) = events[e].backup_size

\* ---------------------------------------------------------------------- C5
\* the step turns the backup entry x into a non-commander main entry
C5_Promoted(x) ==
    /\ x.slot_type = "backup"
    /\ \E y \in RowsOf(rosters') :
          /\ y.event_id = x.event_id /\ y.user_id = x.user_id
          /\ y.slot_type = "main" /\ y.is_commander = 0

\* the promoted backup is the one who joined first
C5_Step ==
    \A x \in RowsOf(rosters) :
        LET pool == {y \in RowsOf(rosters) : y.event_id = x.event_id /\ y.team = x.team
                                             /\ y.slot_type = "backup"}
        IN (/\ C5_Promoted(x)
            /\ \A y, z \in pool : y # z => y.joined_at # z.joined_at)
           => \A y \in pool \ {x} : x.joined_at < y.joined_at

\* C5: when the backups of a team have pairwise distinct joined_at, a step that
\* turns a backup into a non-commander main turns the one with the smallest
\* joined_at.
C5_PromoteFIFO == [][C5_Step]_vars

\* C5 witness: a promotion has just made a backup a main while a backup who
\* joined later is still waiting.
C5_Witness ==
    /\ last.op = "promote" /\ last.uid # 0
    /\ \E x, y \in RowsOf(rosters) :
          /\ x.user_id = last.uid /\ x.slot_type = "main" /\ x.is_commander = 0
          /\ y.event_id = x.event_id /\ y.team = x.team /\ y.slot_type = "backup"
          /\ x.joined_at < y.joined_at

\* ---------------------------------------------------------------------- C6
\* a step of one of the four Join entry points for user u and the team
JoinStep(e, u, team) ==
    \/ JoinAuto(e, u, team)
    \/ JoinBackup(e, u, team)
    \/ backup(e, u, team)
    \/ \E sq \in SquadArgs : join(e, u, team, sq)

\* what a Join step that gives a user their entry does to the caps
C6_Step ==
    \A e \in DOMAIN events, u \in Players, team \in Teams :
        (/\ Entries(rosters, e, u) = {}
         /\ Entries(rosters', e, u) # {}
         /\ JoinStep(e, u, team)) =>
            /\ \A x \in Entries(rosters', e, u) :
                  x.slot_type = "main" =>
                      Cardinality(NonCommanderMains(rosters, e, team, x.squad))
                          < nonCommanderCap(events[e], x.squad)
            /\ (JoinAuto(e, u, team)
                /\ Cardinality(NonCommanderMains(rosters, e, team, "SA"))
                      < nonCommanderCap(events[e], "SA"))
               => \E x \in Entries(rosters', e, u) :
                     x.slot_type = "main" /\ x.squad = "SA" /\ x.team = team
            /\ \A sq \in Squads :
                  Cardinality(NonCommanderMains(rosters', e, team, sq))
                      <= nonCommanderCap(events[e], sq)
            /\ Cardinality(Backups(rosters', e, team)) <= events[e].backup_size

\* C6: a Join handler that runs while other handlers are suspended at their
\* awaits and gives its user an entry takes a main slot of a squad only if the
\* squad is below its cap at that moment, takes squad A's slot when it asks for
\* no squad and A is below its cap, and leaves every squad at or below its cap
\* and the pool at or below backup_size: of two Joins for the last slot one
\* gets it and the other goes on to the next category.
C6_InterleavedJoins == [][C6_Step]_vars

\* C6 witness: two handlers are suspended in their refresh, the first user
\* holds the squad's only main slot and the Join button of the second user has
\* just put them into the backup pool of the same team.
C6_Witness ==
    /\ BagCardinality(inflight) = 2
    /\ Len(rosters) = 2
    /\ last.op = "_join_auto" /\ last.user = rosters[2].user_id
    /\ rosters[1].slot_type = "main" /\ rosters[1].squad = "SA"
    /\ rosters[2].slot_type = "backup" /\ rosters[2].team = rosters[1].team
    /\ nonCommanderCap(events[rosters[1].event_id], "SA") = 1

\* ---------------------------------------------------------------------- C7
\* C7: no handler is suspended at an await between its writes and its commit:
\* whenever a handler runs, no other handler holds an open write transaction.
C7_CommitBeforeYield == txn.pc = "idle"

\* ---------------------------------------------------------------------- C8
\* add_participant refuses whatever it is asked for a non-open event
C8_Rejected ==
    \A e \in DOMAIN events :
        events[e].status # "open" =>
            \A u \in Players, team \in Teams, sq \in SquadArgs, fb \in BOOLEAN :
                LET out == add_participant(rosters, events[e], u, team, sq, fb, now)
                IN out.slot_type = "" /\ out.r = rosters /\ ~out.wrote

\* no Join step on a non-open event changes the rosters or events table
C8_Step ==
    \A e \in DOMAIN events, u \in Players, team \in Teams :
        ~ (/\ events[e].status # "open"
           /\ <<rosters, events>>' # <<rosters, events>>
           /\ JoinStep(e, u, team))

\* C8: while an event's status is not "open", every Join (any team, squad or
\* forced backup, any user) is rejected without a write, and no Join step
\* changes the rosters or the events table.
C8_JoinNeedsOpen == []C8_Rejected /\ [][C8_Step]_vars

\* C8 witness: an event has been locked while a main slot is free and a player
\* has no entry, so that only the status stands between that player and a slot.
C8_Witness ==
    /\ last.op = "event_lock"
    /\ \E e \in DOMAIN events, u \in Players :
          /\ events[e].status = "locked"
          /\ Entries(rosters, e, u) = {}
          /\ Len(rosters) >= 1
          /\ Cardinality(NonCommanderMains(rosters, e, "A", "SA"))
                < nonCommanderCap(events[e], "SA")

\* ---------------------------------------------------------------------- C9
\* C9: the transactions of Leave, Promote, AssignCommander and
\* UnassignCommander do to the roster of a locked event exactly what they do to
\* the same roster of an open event, and return the same.
C9_LockedSameAsOpen ==
    \A e \in DOMAIN events :
        LET locked == [events[e] EXCEPT !.status = "locked"]
            open   == [events[e] EXCEPT !.status = "open"]
        IN  /\ \A u \in Players :
                  leave_txn(rosters, locked, u) = leave_txn(rosters, open, u)
            /\ \A team \in Teams, sq \in Squads :
                  promote_one_non_commander(rosters, locked, team, sq)
                      = promote_one_non_commander(rosters, open, team, sq)
            /\ \A team \in Teams, sq \in Squads, u \in Players :
                  setcommander_txn(rosters, locked, team, sq, u, now)
                      = setcommander_txn(rosters, open, team, sq, u, now)
            /\ \A team \in Teams, u \in Players, d \in BOOLEAN :
                  unsetcommander_txn(rosters, locked, team, u, d)
                      = unsetcommander_txn(rosters, open, team, u, d)

\* C9 witness: the event is locked and, since it was locked, a Leave has removed
\* a main and promoted a backup into the freed slot.
C9_Witness ==
    /\ last.op = "leave" /\ last.uid # 0
    /\ \E e \in DOMAIN events : events[e].status = "locked"
    /\ \E x \in RowsOf(rosters) : x.user_id = last.uid /\ x.slot_type = "main"

\* --------------------------------------------------------------------- C10
\* squad A at its cap, squad B below its cap, the user without an entry
C10_Case(e, u, team) ==
    /\ events[e].status = "open"
    /\ Entries(rosters, e, u) = {}
    /\ Cardinality(NonCommanderMains(rosters, e, team, "SA"))
          >= nonCommanderCap(events[e], "SA")
    /\ Cardinality(NonCommanderMains(rosters, e, team, "SB"))
          < nonCommanderCap(events[e], "SB")

\* add_participant's decision in that case
C10_Decision ==
    \A e \in DOMAIN events, u \in Players, team \in Teams :
        C10_Case(e, u, team) =>
            LET out == add_participant(rosters, events[e], u, team, NULL, FALSE, now)
            IN /\ out.slot_type = "main"
               /\ out.r = Append(rosters, Row(e, u, team, "SB", "main", 0, now))

\* the Join button's step in that case
C10_Step ==
    \A e \in DOMAIN events, u \in Players, team \in Teams :
        (/\ C10_Case(e, u, team)
         /\ rosters' # rosters
         /\ JoinAuto(e, u, team))
            => rosters' = Append(rosters, Row(e, u, team, "SB", "main", 0, now))

\* C10: in an open event, a Join with no squad preference and no forced backup
\* by a user with no entry, while squad A holds its cap of non-commander mains
\* and squad B is below its cap, appends a non-commander main entry in squad B
\* for that user and never a backup.
C10_AutoJoinSquadB == []C10_Decision /\ [][C10_Step]_vars

\* C10 witness: the Join button has just given a user a non-commander main slot
\* in squad B while squad A of the team holds its cap (>= 1) of them.
C10_Witness ==
    /\ last.op = "_join_auto"
    /\ \E e \in DOMAIN events, x \in RowsOf(rosters) :
          /\ x.event_id = e /\ x.user_id = last.user
          /\ x.slot_type = "main" /\ x.squad = "SB" /\ x.is_commander = 0
          /\ nonCommanderCap(events[e], "SA") >= 1
          /\ Cardinality(NonCommanderMains(rosters, e, x.team, "SA"))
                = nonCommanderCap(events[e], "SA")

\* --------------------------------------------------------------------- C11
\* an open event, a user without an entry, the squad at its non-commander cap
C11_Case(e, u, team, sq) ==
    /\ events[e].status = "open"
    /\ Entries(rosters, e, u) = {}
    /\ Cardinality(NonCommanderMains(rosters, e, team, sq))
          >= nonCommanderCap(events[e], sq)

HasRoom(r, e, team, sq) ==
    Cardinality(NonCommanderMains(r, e, team, sq)) < nonCommanderCap(events[e], sq)

\* C11 as stated: a Join that explicitly requests a squad which is at its
\* non-commander cap becomes a main in squad A, else in squad B, if either has
\* spare non-commander capacity, and a backup only when both squads are full.
C11_ExplicitSquadChain ==
    \A e \in DOMAIN events, u \in Players, team \in Teams, sq \in Squads :
        C11_Case(e, u, team, sq) =>
            LET out == add_participant(rosters, events[e], u, team, sq, FALSE, now)
            IN  /\ HasRoom(rosters, e, team, "SA") =>
                      out.r = Append(rosters, Row(e, u, team, "SA", "main", 0, now))
                /\ (~HasRoom(rosters, e, team, "SA") /\ HasRoom(rosters, e, team, "SB")) =>
                      out.r = Append(rosters, Row(e, u, team, "SB", "main", 0, now))
                /\ out.slot_type = "backup" =>
                      ~HasRoom(rosters, e, team, "SA") /\ ~HasRoom(rosters, e, team, "SB")

\* add_participant's decision for a requested squad at its cap
C11_Decision ==
    \A e \in DOMAIN events, u \in Players, team \in Teams, sq \in Squads :
        C11_Case(e, u, team, sq) =>
            LET out == add_participant(rosters, events[e], u, team, sq, FALSE, now)
            IN  IF Cardinality(Backups(rosters, e, team)) < events[e].backup_size
                THEN /\ out.slot_type = "backup"
                     /\ out.r = Append(rosters, Row(e, u, team, NULL, "backup", 0, now))
                ELSE /\ out.slot_type = "" /\ out.r = rosters /\ ~out.wrote

\* /join with a squad argument in that case
C11_Step ==
    \A e \in DOMAIN events, u \in Players, team \in Teams, sq \in Squads :
        (/\ rosters' # rosters
         /\ C11_Case(e, u, team, sq)
         /\ join(e, u, team, sq))
            => rosters' = Append(rosters, Row(e, u, team, NULL, "backup", 0, now))

\* C11 as amended: a Join that explicitly requests a squad which is at its
\* non-commander cap does not go on to the other squad: it becomes a backup of
\* the team if the team's backup count is below backup_size, and is otherwise
\* rejected with the store unchanged.
C11_ExplicitSquadBackup == []C11_Decision /\ [][C11_Step]_vars

\* C11 witness: /join has just made a user a backup while squad A of the team
\* holds its cap (>= 1) of non-commander mains and squad B has a free main slot.
C11_Witness ==
    /\ last.op = "join"
    /\ \E e \in DOMAIN events, x \in RowsOf(rosters) :
          /\ x.event_id = e /\ x.user_id = last.user /\ x.slot_type = "backup"
          /\ nonCommanderCap(events[e], "SA") >= 1
          /\ ~HasRoom(rosters, e, x.team, "SA")
          /\ HasRoom(rosters, e, x.team, "SB")

\* --------------------------------------------------------------------- C12
\* C12: /join without a squad argument, by a user without an entry in an open
\* event, makes the user a main in squad A if A is below its non-commander
\* cap, otherwise a main in squad B if B is below its cap, otherwise a backup
\* (if the pool is below backup_size).
C12_JoinDefaultAuto ==
    \A e \in DOMAIN events, u \in Players, team \in Teams :
        (events[e].status = "open" /\ Entries(rosters, e, u) = {}) =>
            LET out == join_txn(rosters, events[e], u, team, NULL, now)
            IN  IF HasRoom(rosters, e, team, "SA")
                THEN out.r = Append(rosters, Row(e, u, team, "SA", "main", 0, now))
                ELSE IF HasRoom(rosters, e, team, "SB")
                THEN out.r = Append(rosters, Row(e, u, team, "SB", "main", 0, now))
                ELSE Cardinality(Backups(rosters, e, team)) < events[e].backup_size
                     => out.r = Append(rosters, Row(e, u, team, NULL, "backup", 0, now))

\* --------------------------------------------------------------------- C13
\* add_participant with force_backup: whatever squad is passed along, the only
\* row it can add is a backup row, and for a user without an entry in an open
\* event it adds that row exactly when the pool is below backup_size
C13_Decision ==
    \A e \in DOMAIN events, u \in Players, team \in Teams, sq \in SquadArgs :
        LET out == add_participant(rosters, events[e], u, team, sq, TRUE, now)
            row == Row(e, u, team, NULL, "backup", 0, now)
        IN  /\ out.r \in {rosters, Append(rosters, row)}
            /\ (events[e].status = "open" /\ Entries(rosters, e, u) = {}) =>
                  IF Cardinality(Backups(rosters, e, team)) < events[e].backup_size
                  THEN out.slot_type = "backup" /\ out.r = Append(rosters, row)
                  ELSE out.slot_type = "" /\ out.r = rosters /\ ~out.wrote

\* the Backup button and /backup change the table only by that backup row
C13_Step ==
    \A e \in DOMAIN events, u \in Players, team \in Teams :
        (/\ rosters' # rosters
         /\ (JoinBackup(e, u, team) \/ backup(e, u, team)))
            => /\ Cardinality(Backups(rosters, e, team)) < events[e].backup_size
               /\ rosters' = Append(rosters, Row(e, u, team, NULL, "backup", 0, now))

\* C13: a Join with force_backup never creates a main entry, also when squads
\* have spare capacity: for a user without an entry in an open event it appends
\* a backup entry (squad NULL, is_commander 0) if the team's backup count is
\* below backup_size and otherwise is rejected with the table unchanged.
C13_ForceBackupOnly == []C13_Decision /\ [][C13_Step]_vars

\* C13 witness: the Backup button has just made a user a backup while squad A
\* of the team has a free non-commander main slot.
C13_Witness ==
    /\ last.op = "_join_backup"
    /\ \E e \in DOMAIN events, x \in RowsOf(rosters) :
          /\ x.event_id = e /\ x.user_id = last.user
          /\ x.slot_type = "backup" /\ x.squad = NULL /\ x.is_commander = 0
          /\ HasRoom(rosters, e, x.team, "SA")

\* --------------------------------------------------------------------- C14
\* an open event, a user without an entry, both squads of the team at their
\* non-commander cap and the team's pool at backup_size
C14_Case(e, u, team) ==
    /\ events[e].status = "open"
    /\ Entries(rosters, e, u) = {}
    /\ ~HasRoom(rosters, e, team, "SA")
    /\ ~HasRoom(rosters, e, team, "SB")
    /\ Cardinality(Backups(rosters, e, team)) >= events[e].backup_size

\* add_participant refuses in that case, whatever squad or force_backup it is
\* called with, and the requester is sent the refusal
C14_Decision ==
    \A e \in DOMAIN events, u \in MorePlayers, team \in Teams :
        C14_Case(e, u, team) =>
            \A sq \in SquadArgs, fb \in BOOLEAN :
                LET out == add_participant(rosters, events[e], u, team, sq, fb, now)
                IN  /\ out.slot_type = "" /\ out.r = rosters /\ ~out.wrote
                    /\ out.note \in {"full", "full_chosen", "backups_full"}
                    /\ join_reply(out) = out.note

\* a Join step in that case changes no variable: no entry, no refresh task
C14_Step ==
    \A e \in DOMAIN events, u \in MorePlayers, team \in Teams :
        ~ (C14_Case(e, u, team) /\ JoinStep(e, u, team))

\* C14: a Join into an open event in which both squads hold their cap of
\* non-commander mains and the team's pool holds backup_size entries is
\* rejected with a full-capacity note, writes nothing and leaves every variable
\* of the state as it is: nothing is queued or left pending for the requester.
C14_FullRejected == []C14_Decision /\ [][C14_Step]_vars

\* C14 witness: a team's only main slot and only backup slot are taken by two
\* users and a third user of the open event has no entry.
C14_Witness ==
    \E e \in DOMAIN events, u \in MorePlayers :
        /\ C14_Case(e, u, "A")
        /\ nonCommanderCap(events[e], "SA") >= 1
        /\ events[e].backup_size >= 1
        /\ Backups(rosters, e, "A") # {}
        /\ NonCommanderMains(rosters, e, "A", "SA") # {}

\* --------------------------------------------------------------------- C15
\* add_participant for a user who has an entry: no write whatever the event's
\* status, and in an open event "already" for the entry's team and a rejection
\* for the other team
C15_Decision ==
    \A e \in DOMAIN events, x \in RowsOf(rosters) :
        x.event_id = e =>
            \A team \in Teams, sq \in SquadArgs, fb \in BOOLEAN :
                LET out == add_participant(rosters, events[e], x.user_id, team, sq, fb, now)
                IN  /\ out.r = rosters /\ ~out.wrote
                    /\ events[e].status = "open" =>
                          IF team = x.team
                          THEN out.note = "already" /\ out.slot_type = x.slot_type
                          ELSE out.note = "other_team" /\ out.slot_type = ""

\* no Join step of a user who has an entry changes the rosters table
C15_Step ==
    \A e \in DOMAIN events, u \in Players, team \in Teams :
        ~ (/\ rosters' # rosters
           /\ Entries(rosters, e, u) # {}
           /\ JoinStep(e, u, team))

\* C15: a Join by a user who already has an entry in the event never writes to
\* the rosters table; in an open event it returns "already enrolled" when the
\* entry is on the requested team and a rejection when it is on the other team.
C15_ExistingEntryNoChange == []C15_Decision /\ [][C15_Step]_vars

\* C15 witness: in an open event with two teams one user holds an entry on
\* team A and another user an entry on team B, so that a Join of either for
\* either team meets an existing entry.
C15_Witness ==
    \E e \in DOMAIN events, x, y \in RowsOf(rosters) :
        /\ events[e].status = "open" /\ events[e].teams = 2
        /\ x.event_id = e /\ y.event_id = e
        /\ x.team = "A" /\ y.team = "B"
        /\ x.slot_type = "main" /\ y.slot_type = "backup"

\* --------------------------------------------------------------------- C16
\* C16: the reply to a Join tells a new main, a new backup and an already
\* enrolled user apart: the Join of a user who has an entry on the requested
\* team of an open event is never answered with the reply of a new join.
C16_AlreadyNotReportedAsJoin ==
    \A e \in DOMAIN events, x \in RowsOf(rosters) :
        (x.event_id = e /\ events[e].status = "open") =>
            LET out == add_participant(rosters, events[e], x.user_id, x.team,
                                       NULL, FALSE, now)
            IN join_reply(out) \notin {"Joined as main", "Joined as backup"}

\* --------------------------------------------------------------------- C17
\* a Leave that removes a non-commander main while the team has a backup
C17_Step ==
    \A e \in DOMAIN events, u \in Players :
        (/\ rosters' # rosters
         /\ \E x \in Entries(rosters, e, u) :
               /\ x.slot_type = "main" /\ x.is_commander = 0
               /\ Backups(rosters, e, x.team) # {}
         /\ leave(e, u))
            => \A x \in Entries(rosters, e, u) :
                  /\ Entries(rosters', e, u) = {}
                  /\ Cardinality(NonCommanderMains(rosters', e, x.team, x.squad))
                        = Cardinality(NonCommanderMains(rosters, e, x.team, x.squad))
                  /\ Cardinality(Backups(rosters', e, x.team))
                        = Cardinality(Backups(rosters, e, x.team)) - 1
                  /\ last'.op = "leave" /\ last'.uid # 0
                  /\ \E y \in Entries(rosters', e, last'.uid) :
                        y.slot_type = "main" /\ y.squad = x.squad /\ y.team = x.team

\* C17: a Leave that removes a non-commander main entry of (team, squad) while
\* the team has at least one backup promotes a backup of the team into that
\* squad in the same step: the leaver's entry is gone, the squad holds as many
\* non-commander mains after the Leave as before it and the pool one less.
C17_LeavePromotes == [][C17_Step]_vars

\* C17 witness: in an open event a Leave has just removed a main and put a
\* backup of the team into the freed slot, which leaves the squad at its cap.
C17_Witness ==
    /\ last.op = "leave" /\ last.uid # 0
    /\ \E e \in DOMAIN events, x \in RowsOf(rosters) :
          /\ events[e].status = "open"
          /\ x.event_id = e /\ x.user_id = last.uid
          /\ x.slot_type = "main" /\ x.is_commander = 0
          /\ Entries(rosters, e, last.user) = {}
          /\ ~HasRoom(rosters, e, x.team, x.squad)

\* --------------------------------------------------------------------- C18
\* The user of the last write entered the pool in that write, by demotion, so
\* every other backup of the team has waited in the pool longer.
C18_JustDemoted(x) ==
    /\ last.op = "event_unsetcommander"
    /\ last.user = x.user_id
    /\ x.slot_type = "backup"

C18_Step ==
    \A x \in RowsOf(rosters) :
        LET pool == {y \in RowsOf(rosters) : y.event_id = x.event_id /\ y.team = x.team
                                             /\ y.slot_type = "backup"}
        IN (/\ C18_JustDemoted(x)
            /\ pool # {x}
            /\ \A y, z \in pool : y # z => y.joined_at # z.joined_at)
           => ~C5_Promoted(x)

\* C18: the backup that a step promotes is the one that has waited in the
\* team's pool the longest, also when backups entered the pool through
\* /event_unsetcommander's demotion: a commander demoted into a pool that holds
\* other backups is not promoted ahead of them.
C18_LongestWaitingPromoted == [][C18_Step]_vars

\* --------------------------------------------------------------------- C19
\* promote_one_non_commander returns None without a write when the squad is at
\* or above its cap or the team has no backup; its only other result is the
\* promoted user's id
C19_Decision ==
    \A e \in DOMAIN events, team \in Teams, sq \in Squads :
        LET outs == promote_one_non_commander(rosters, events[e], team, sq)
        IN  /\ outs # {}
            /\ \A o \in outs : o.note \in {"none", "promoted"}
            /\ (\/ ~HasRoom(rosters, e, team, sq)
                \/ Backups(rosters, e, team) = {})
               => outs = {Outcome(rosters, "", "none", FALSE)}

\* no /promote or manager Promote button step changes the table in that case
C19_Step ==
    \A e \in DOMAIN events, team \in Teams, sq \in Squads :
        ~ (/\ rosters' # rosters
           /\ (~HasRoom(rosters, e, team, sq) \/ Backups(rosters, e, team) = {})
           /\ \E a \in Users : promote(e, a, team, sq) \/ MgrPromote(e, a, team, sq))

\* C19: promote_one_non_commander(team, squad) returns none and leaves the
\* rosters table unchanged when the squad's non-commander main count is at or
\* above its cap or when the team has no backup entry; it has no result other
\* than none or a promoted user.
C19_PromoteNoOp == []C19_Decision /\ [][C19_Step]_vars

\* C19 witness: a squad holds its cap (>= 1) of non-commander mains while a
\* backup of the team waits, and another team of the event has room in the
\* squad but no backup: both no-op cases at once.
C19_Witness ==
    \E e \in DOMAIN events, sq \in Squads :
        /\ nonCommanderCap(events[e], sq) >= 1
        /\ ~HasRoom(rosters, e, "A", sq)
        /\ Backups(rosters, e, "A") # {}
        /\ events[e].teams = 2
        /\ HasRoom(rosters, e, "B", sq)
        /\ Backups(rosters, e, "B") = {}

\* --------------------------------------------------------------------- C20
\* The step turns at most one entry outside the set gone into another one:
\* a backup of the team in event e, which becomes a non-commander main of the
\* squad and keeps the rest of its fields; every other entry outside gone stays
\* as it is, the entries in gone disappear and no entry is added.
C20_OnePromotion(e, team, squad, gone) ==
    LET old == (RowsOf(rosters) \ RowsOf(rosters')) \ gone
        new == RowsOf(rosters') \ RowsOf(rosters)
    IN  /\ Cardinality(old) <= 1
        /\ \A x \in old :
              /\ x.event_id = e /\ x.team = team /\ x.slot_type = "backup"
              /\ new = {[x EXCEPT !.slot_type = "main", !.squad = squad,
                                  !.is_commander = 0]}
        /\ old = {} => new = {}
        /\ gone \cap RowsOf(rosters') = {}
        /\ Len(rosters') = Len(rosters) - Cardinality(gone)

C20_Step ==
    /\ \A e \in DOMAIN events, team \in Teams, sq \in Squads :
          (/\ rosters' # rosters
           /\ \E a \in Users : promote(e, a, team, sq) \/ MgrPromote(e, a, team, sq))
              => C20_OnePromotion(e, team, sq, {})
    /\ \A e \in DOMAIN events, u \in Players :
          (/\ rosters' # rosters
           /\ leave(e, u))
              => \A x \in Entries(rosters, e, u) :
                    C20_OnePromotion(e, x.team, x.squad, Entries(rosters, e, u))

\* C20: a /promote or Promote button step for (team, squad), and a Leave,
\* changes at most one entry other than the leaver's: that entry was a backup
\* of the same team and becomes a main of the squad with is_commander 0, its
\* team and joined_at unchanged; no other entry, in particular no backup of the
\* other team, changes.
C20_PromotionFrame == [][C20_Step]_vars

\* C20 witness: /promote has just made a backup of one team a main while a
\* backup of the other team is still in its pool.
C20_Witness ==
    /\ last.op = "promote" /\ last.uid # 0
    /\ \E x, y \in RowsOf(rosters) :
          /\ x.user_id = last.uid /\ x.slot_type = "main" /\ x.is_commander = 0
          /\ y.event_id = x.event_id /\ y.team # x.team /\ y.slot_type = "backup"

\* --------------------------------------------------------------------- C21
\* squad A of size 2 with commander quota 1, squad B of size 1 with quota 0,
\* one backup slot, open
C21_Config(ev) ==
    /\ ev.status = "open"
    /\ ev.squad_a_size = 2 /\ ev.squad_a_commander_quota = 1
    /\ ev.squad_b_size = 1 /\ ev.squad_b_commander_quota = 0
    /\ ev.backup_size = 1

\* the three Joins and the Leave, one after the other, on an empty roster
C21_Decision ==
    \A e \in DOMAIN events :
        (C21_Config(events[e]) /\ rosters = <<>>) =>
            \A u1, u2, u3 \in MorePlayers, t1, t2, t3 \in 0..MaxClock :
                (u1 # u2 /\ u1 # u3 /\ u2 # u3 /\ t1 <= t2 /\ t2 <= t3) =>
                    LET ev == events[e]
                        o1 == add_participant(rosters, ev, u1, "A", NULL, FALSE, t1)
                        o2 == add_participant(o1.r, ev, u2, "A", NULL, FALSE, t2)
                        o3 == add_participant(o2.r, ev, u3, "A", NULL, FALSE, t3)
                    IN  /\ o1.r = <<Row(e, u1, "A", "SA", "main", 0, t1)>>
                        /\ o2.r = Append(o1.r, Row(e, u2, "A", "SB", "main", 0, t2))
                        /\ o3.r = Append(o2.r, Row(e, u3, "A", NULL, "backup", 0, t3))
                        /\ \A o \in leave_txn(o3.r, ev, u1) :
                              /\ o.uid = u3
                              /\ o.r = <<Row(e, u2, "A", "SB", "main", 0, t2),
                                         Row(e, u3, "A", "SA", "main", 0, t3)>>

\* the Leave button or /leave of U1 in the state the three Joins lead to
C21_Step ==
    (/\ rosters' # rosters
     /\ Len(rosters) = 3 /\ Len(rosters') = 2
     /\ \A i \in 1..3 : rosters[i].team = "A" /\ rosters[i].is_commander = 0
     /\ rosters[1].slot_type = "main" /\ rosters[1].squad = "SA"
     /\ rosters[2].slot_type = "main" /\ rosters[2].squad = "SB"
     /\ rosters[3].slot_type = "backup"
     /\ C21_Config(events[rosters[1].event_id])
     /\ leave(rosters[1].event_id, rosters[1].user_id))
        => rosters' = <<rosters[2],
                       [rosters[3] EXCEPT !.slot_type = "main", !.squad = "SA"]>>

\* C21: in an open event with squad A of size 2 and commander quota 1, squad B
\* of size 1 and quota 0 and backup size 1, Join(U1, A), Join(U2, A),
\* Join(U3, A) without a squad make U1 a non-commander main of squad A, U2 a
\* main of squad B and U3 a backup; Leave(U1) then removes U1's entry and makes
\* U3 a non-commander main of squad A.
C21_JoinJoinJoinLeave == []C21_Decision /\ [][C21_Step]_vars

\* C21 witness: the Join button has been pressed by three users in turn and
\* the first has just left: the second is the main of squad B and the third,
\* promoted by the Leave, the non-commander main of squad A.
C21_Witness ==
    /\ last.op = "leave" /\ last.uid # 0
    /\ Len(rosters) = 2
    /\ C21_Config(events[rosters[1].event_id])
    /\ rosters[1].slot_type = "main" /\ rosters[1].squad = "SB"
    /\ rosters[2].user_id = last.uid
    /\ rosters[2].slot_type = "main" /\ rosters[2].squad = "SA"
    /\ rosters[2].is_commander = 0
    /\ last.user \notin {rosters[1].user_id, rosters[2].user_id}

\* --------------------------------------------------------------------- C22
\* event_setcommander's transaction for a squad whose commander count equals
\* its quota: refused as a capacity rejection without a write, for every user
C22_Decision ==
    \A e \in DOMAIN events, team \in Teams, sq \in Squads :
        Cardinality(Commanders(rosters, e, team, sq)) = commanderQuota(events[e], sq) =>
            \A u \in MorePlayers :
                LET out == setcommander_txn(rosters, events[e], team, sq, u, now)
                IN out.r = rosters /\ ~out.wrote /\ out.note = "quota_full"

\* no /event_setcommander step for such a squad changes the table
C22_Step ==
    \A e \in DOMAIN events, team \in Teams, sq \in Squads :
        ~ (/\ rosters' # rosters
           /\ Cardinality(Commanders(rosters, e, team, sq))
                 = commanderQuota(events[e], sq)
           /\ \E a \in Users, u \in Players : event_setcommander(e, a, team, sq, u))

\* C22: /event_setcommander(team, squad, user) on a squad whose commander count
\* equals its commander quota is rejected with the quota message and writes
\* nothing, whether the user has no entry, is a backup, a main, a commander of
\* that or the other squad, or is on the other team.
C22_AtQuotaRejected == []C22_Decision /\ [][C22_Step]_vars

\* C22 witness: a squad holds its quota (>= 1) of commanders, put there by
\* /event_setcommander, has room for a further main, and the event holds an
\* entry of the other team.
C22_Witness ==
    /\ last.op = "event_setcommander"
    /\ \E e \in DOMAIN events, x, y \in RowsOf(rosters) :
          /\ x.event_id = e /\ x.user_id = last.user /\ x.is_commander = 1
          /\ commanderQuota(events[e], x.squad) >= 1
          /\ Cardinality(Commanders(rosters, e, x.team, x.squad))
                = commanderQuota(events[e], x.squad)
          /\ HasRoom(rosters, e, x.team, x.squad)
          /\ y.event_id = e /\ y.team # x.team

\* --------------------------------------------------------------------- C23
\* event_setcommander's transaction for a user whose entry is on the other
\* team: no write, and a rejection (of the capacity checks, or the request to
\* leave first)
C23_Decision ==
    \A e \in DOMAIN events, x \in RowsOf(rosters) :
        x.event_id = e =>
            \A team \in Teams \ {x.team}, sq \in Squads :
                LET out == setcommander_txn(rosters, events[e], team, sq, x.user_id, now)
                IN  /\ out.r = rosters /\ ~out.wrote
                    /\ out.note \in {"quota_full", "squad_full", "other_team"}
                    /\ setcommander_capacity(rosters, events[e], team, sq) = ""
                          => out.note = "other_team"

\* no /event_setcommander step for a team changes the table when the user's
\* entry is on the other team
C23_Step ==
    \A e \in DOMAIN events, u \in Players, team \in Teams :
        ~ (/\ rosters' # rosters
           /\ \E x \in Entries(rosters, e, u) : x.team # team
           /\ \E a \in Users, sq \in Squads : event_setcommander(e, a, team, sq, u))

\* C23: /event_setcommander(team, squad, user) for a user whose entry is on the
\* other team is rejected and writes nothing: the entry keeps its team, squad,
\* slot type and commander flag.
C23_OtherTeamRejected == []C23_Decision /\ [][C23_Step]_vars

\* C23 witness: a user holds an entry on team A while squad A of team B, which
\* has an entry of its own, is below its commander quota and its size, so that
\* only the entry stands between the user and team B's commander slot.
C23_Witness ==
    \E e \in DOMAIN events, x \in RowsOf(rosters) :
        /\ x.event_id = e /\ x.team = "A"
        /\ events[e].teams = 2
        /\ setcommander_capacity(rosters, events[e], "B", "SA") = ""
        /\ \E y \in RowsOf(rosters) : y.event_id = e /\ y.team = "B"

\* --------------------------------------------------------------------- C24
\* the row a successful event_setcommander leaves the user with
C24_Result(r, e, team, sq, u) ==
    /\ Cardinality({i \in DOMAIN r : r[i].event_id = e /\ r[i].user_id = u}) = 1
    /\ \A x \in {y \in RowsOf(r) : y.event_id = e /\ y.user_id = u} :
          x.team = team /\ x.squad = sq /\ x.slot_type = "main" /\ x.is_commander = 1

\* event_setcommander's transaction when it writes: a same-team entry is
\* changed in place, no entry means an appended row, all other rows stay
C24_Decision ==
    \A e \in DOMAIN events, team \in Teams, sq \in Squads, u \in Players :
        LET out == setcommander_txn(rosters, events[e], team, sq, u, now)
        IN  out.wrote =>
              /\ out.note # "IntegrityError"
              /\ C24_Result(out.r, e, team, sq, u)
              /\ IF Entries(rosters, e, u) = {}
                 THEN out.r = Append(rosters, Row(e, u, team, sq, "main", 1, now))
                 ELSE /\ Len(out.r) = Len(rosters)
                      /\ \A i \in DOMAIN rosters :
                            IF rosters[i].event_id = e /\ rosters[i].user_id = u
                            THEN /\ rosters[i].team = team
                                 /\ out.r[i] = [rosters[i] EXCEPT !.slot_type = "main",
                                                    !.squad = sq, !.is_commander = 1]
                            ELSE out.r[i] = rosters[i]

\* an /event_setcommander step that changes the table
C24_Step ==
    \A e \in DOMAIN events, team \in Teams, sq \in Squads, u \in Players :
        (/\ rosters' # rosters
         /\ \E a \in Users : event_setcommander(e, a, team, sq, u))
            => C24_Result(rosters', e, team, sq, u)

\* C24: every /event_setcommander(team, squad, user) that writes leaves the
\* user with exactly one entry, which is (team, squad, main, is_commander 1):
\* a backup or main entry of the team is converted in place (a main may change
\* squad) and a user without an entry gets an appended one.
C24_CommanderEntry == []C24_Decision /\ [][C24_Step]_vars

\* C24 witness: /event_setcommander has just made a commander of a user whose
\* entry was in the table before the entries that follow it, that is, by
\* converting the entry in place.
C24_Witness ==
    /\ last.op = "event_setcommander"
    /\ Len(rosters) >= 2
    /\ rosters[1].user_id = last.user
    /\ rosters[1].slot_type = "main" /\ rosters[1].is_commander = 1
    /\ rosters[2].event_id = rosters[1].event_id

\* --------------------------------------------------------------------- C25
\* C25 as stated: /event_setcommander for a user who is a main commander of
\* exactly that team and squad changes nothing and returns the
\* already-a-commander result.
C25_AlreadyCommanderInfo ==
    \A e \in DOMAIN events, x \in RowsOf(rosters) :
        (x.event_id = e /\ x.slot_type = "main" /\ x.is_commander = 1) =>
            LET out == setcommander_txn(rosters, events[e], x.team, x.squad,
                                        x.user_id, now)
            IN out.r = rosters /\ ~out.wrote /\ out.note = "already_commander"

\* the transaction's result for a commander of that team and squad
C25_Decision ==
    \A e \in DOMAIN events, x \in RowsOf(rosters) :
        (x.event_id = e /\ x.slot_type = "main" /\ x.is_commander = 1) =>
            LET out   == setcommander_txn(rosters, events[e], x.team, x.squad,
                                          x.user_id, now)
                cmdrs == Cardinality(Commanders(rosters, e, x.team, x.squad))
                mains == Cardinality(NonCommanderMains(rosters, e, x.team, x.squad))
            IN  /\ out.r = rosters /\ ~out.wrote
                /\ out.note = IF cmdrs >= commanderQuota(events[e], x.squad)
                              THEN "quota_full"
                              ELSE IF cmdrs + mains >= squadSize(events[e], x.squad)
                              THEN "squad_full"
                              ELSE "already_commander"

\* no /event_setcommander step for a commander's own team and squad changes
\* the table
C25_Step ==
    \A e \in DOMAIN events, u \in Players :
        ~ (/\ rosters' # rosters
           /\ \E x \in Entries(rosters, e, u) :
                 /\ x.slot_type = "main" /\ x.is_commander = 1
                 /\ \E a \in Users : event_setcommander(e, a, x.team, x.squad, u))

\* C25 as amended: /event_setcommander for a user who is a main commander of
\* exactly that team and squad never changes the table; it returns the
\* already-a-commander result when the squad is below its commander quota and
\* below its size, and the capacity rejection of the squad otherwise.
C25_AlreadyCommanderNoChange == []C25_Decision /\ [][C25_Step]_vars

\* C25 witness: /event_setcommander has made a user the only commander of a
\* squad with two commander slots and a free place, so that a second call for
\* the same user gets past the capacity checks.
C25_Witness ==
    /\ last.op = "event_setcommander"
    /\ \E e \in DOMAIN events, x \in RowsOf(rosters) :
          /\ x.event_id = e /\ x.user_id = last.user
          /\ x.slot_type = "main" /\ x.is_commander = 1
          /\ Cardinality(Commanders(rosters, e, x.team, x.squad))
                < commanderQuota(events[e], x.squad)
          /\ Cardinality(Commanders(rosters, e, x.team, x.squad))
                + Cardinality(NonCommanderMains(rosters, e, x.team, x.squad))
                < squadSize(events[e], x.squad)

\* --------------------------------------------------------------------- C26
\* the user is not a main commander of the team
C26_NotTarget(e, team, u) ==
    \/ Entries(rosters, e, u) = {}
    \/ \E x \in Entries(rosters, e, u) :
          x.team # team \/ x.slot_type = "backup" \/ x.is_commander = 0

\* event_unsetcommander's transaction refuses such a user without a write
C26_Decision ==
    \A e \in DOMAIN events, team \in Teams, u \in Players, d \in BOOLEAN :
        C26_NotTarget(e, team, u) =>
            unsetcommander_txn(rosters, events[e], team, u, d)
                = Outcome(rosters, "", "not_commander", FALSE)

\* no /event_unsetcommander step for such a user changes the table
C26_Step ==
    \A e \in DOMAIN events, team \in Teams, u \in Players :
        ~ (/\ rosters' # rosters
           /\ C26_NotTarget(e, team, u)
           /\ \E a \in Users, d \in BOOLEAN : event_unsetcommander(e, a, team, u, d))

\* C26: /event_unsetcommander(team, user) is rejected without a write whenever
\* the user has no entry, has an entry on the other team, is a backup, or is a
\* main that is not a commander.
C26_NotCommanderRejected == []C26_Decision /\ [][C26_Step]_vars

\* C26 witness: an event with two teams holds a non-commander main and a
\* backup while the squad of the main has a commander slot.
C26_Witness ==
    \E e \in DOMAIN events, x, y \in RowsOf(rosters) :
        /\ events[e].teams = 2
        /\ x.event_id = e /\ x.slot_type = "main" /\ x.is_commander = 0
        /\ commanderQuota(events[e], x.squad) >= 1
        /\ y.event_id = e /\ y.slot_type = "backup"

\* --------------------------------------------------------------------- C27
\* the table r with the fields of the row of user u in event e replaced
InPlace(r, e, u, slot_type, squad, is_commander) ==
    [i \in DOMAIN r |->
        IF r[i].event_id = e /\ r[i].user_id = u
        THEN [event_id |-> e, user_id |-> u, team |-> r[i].team, squad |-> squad,
              slot_type |-> slot_type, is_commander |-> is_commander,
              joined_at |-> r[i].joined_at]
        ELSE r[i]]

\* x is a main commander whose squad has room for one more non-commander main
C27_Case(e, x) ==
    /\ x.event_id = e /\ x.slot_type = "main" /\ x.is_commander = 1
    /\ Cardinality(NonCommanderMains(rosters, e, x.team, x.squad)) + 1
          <= nonCommanderCap(events[e], x.squad)

\* event_unsetcommander's transaction in that case
C27_Decision ==
    \A e \in DOMAIN events, x \in RowsOf(rosters), d \in BOOLEAN :
        C27_Case(e, x) =>
            LET out == unsetcommander_txn(rosters, events[e], x.team, x.user_id, d)
            IN  /\ out.wrote /\ out.note = "unset"
                /\ out.r = InPlace(rosters, e, x.user_id, "main", x.squad, 0)

\* an /event_unsetcommander step in that case
C27_Step ==
    \A e \in DOMAIN events, x \in RowsOf(rosters) :
        (/\ rosters' # rosters
         /\ C27_Case(e, x)
         /\ \E a \in Users, d \in BOOLEAN :
               event_unsetcommander(e, a, x.team, x.user_id, d))
            => rosters' = InPlace(rosters, e, x.user_id, "main", x.squad, 0)

\* C27: when the target is a main commander and its squad's non-commander main
\* count plus one is at most the squad's non-commander cap,
\* /event_unsetcommander clears the commander flag and nothing else: the entry
\* stays a main of the same team and squad, with demote_if_needed true or false.
C27_ClearFlagInPlace == []C27_Decision /\ [][C27_Step]_vars

\* C27 witness: /event_unsetcommander has just made a commander a
\* non-commander main of its squad while the team's pool has a free place, so
\* that a demotion would have been possible.
C27_Witness ==
    /\ last.op = "event_unsetcommander"
    /\ \E e \in DOMAIN events, x \in RowsOf(rosters) :
          /\ x.event_id = e /\ x.user_id = last.user
          /\ x.slot_type = "main" /\ x.is_commander = 0 /\ x.squad \in Squads
          /\ Cardinality(Backups(rosters, e, x.team)) < events[e].backup_size

\* --------------------------------------------------------------------- C28
\* x is a main commander whose squad has no room for one more non-commander
\* main
C28_Case(e, x) ==
    /\ x.event_id = e /\ x.slot_type = "main" /\ x.is_commander = 1
    /\ Cardinality(NonCommanderMains(rosters, e, x.team, x.squad)) + 1
          > nonCommanderCap(events[e], x.squad)

\* event_unsetcommander's transaction in that case
C28_Decision ==
    \A e \in DOMAIN events, x \in RowsOf(rosters), d \in BOOLEAN :
        C28_Case(e, x) =>
            LET out == unsetcommander_txn(rosters, events[e], x.team, x.user_id, d)
            IN  IF d /\ Cardinality(Backups(rosters, e, x.team)) < events[e].backup_size
                THEN /\ out.wrote /\ out.note = "demoted"
                     /\ out.r = InPlace(rosters, e, x.user_id, "backup", NULL, 0)
                ELSE /\ ~out.wrote /\ out.r = rosters
                     /\ out.note = IF d THEN "backups_full" ELSE "mains_full"

\* an /event_unsetcommander step in that case
C28_Step ==
    \A e \in DOMAIN events, x \in RowsOf(rosters) :
        (/\ rosters' # rosters
         /\ C28_Case(e, x)
         /\ \E a \in Users, d \in BOOLEAN :
               event_unsetcommander(e, a, x.team, x.user_id, d))
            => /\ rosters' = InPlace(rosters, e, x.user_id, "backup", NULL, 0)
               /\ Cardinality(Backups(rosters, e, x.team)) < events[e].backup_size
               /\ \E a \in Users : event_unsetcommander(e, a, x.team, x.user_id, TRUE)

\* C28: when clearing the flag would take the squad's non-commander main count
\* above its cap, /event_unsetcommander turns the entry into a backup with
\* squad NULL and is_commander 0 exactly when demote_if_needed is true and the
\* team's backup count is below backup_size; in every other case it is
\* rejected and writes nothing.
C28_DemoteOrReject == []C28_Decision /\ [][C28_Step]_vars

\* C28 witness: /event_unsetcommander has just demoted a commander into the
\* pool of a team that has a backup slot to spare, while a squad with a
\* commander slot holds its cap (>= 1) of non-commander mains.
C28_Witness ==
    /\ last.op = "event_unsetcommander"
    /\ \E e \in DOMAIN events, x \in RowsOf(rosters), sq \in Squads :
          /\ x.event_id = e /\ x.user_id = last.user
          /\ x.slot_type = "backup" /\ x.squad = NULL /\ x.is_commander = 0
          /\ commanderQuota(events[e], sq) >= 1
          /\ nonCommanderCap(events[e], sq) >= 1
          /\ ~HasRoom(rosters, e, x.team, sq)
          /\ Cardinality(Backups(rosters, e, x.team)) < events[e].backup_size

\* --------------------------------------------------------------------- C29
\* a step in which /event_reset or the Reset button commits for event e
C29_ResetOf(e) ==
    /\ txn'.pc = "idle"
    /\ \/ \E a \in Users, c \in BOOLEAN : event_reset(e, a, c)
       \/ txn.e = e /\ (ResetFetched \/ ResetDeleted)

C29_Step ==
    \A e \in DOMAIN events :
        (<<rosters, events, last>>' # <<rosters, events, last>> /\ C29_ResetOf(e)) =>
            LET Other(x) == x.event_id # e
            IN  /\ rosters' = SelectSeq(rosters, Other)
                /\ Entries(rosters', e, 1) \cup Entries(rosters', e, 2) = {}
                /\ DOMAIN events' = DOMAIN events
                /\ events'[e].status = "open"
                /\ \A e2 \in DOMAIN events \ {e} : events'[e2] = events[e2]

\* C29: a reset of an event removes every roster entry of that event and sets
\* its status to "open", whatever the status was, and leaves the entries (and
\* their order) and the rows of every other event as they are.
C29_ResetOneEvent == [][C29_Step]_vars

\* C29 witness: a reset has just emptied an event and opened it while the
\* other event is locked and holds an entry.
C29_Witness ==
    /\ last.op = "reset"
    /\ \E e1, e2 \in DOMAIN events :
          /\ e1 # e2
          /\ events[e1].status = "open" /\ events[e1].squad_a_size = 1
          /\ \A x \in RowsOf(rosters) : x.event_id = e2
          /\ events[e2].status = "locked" /\ rosters # <<>>

\* --------------------------------------------------------------------- C30
\* C30: for every event and team the five buckets of get_roster (squad-A
\* commanders, squad-A non-commander mains, squad-B commanders, squad-B
\* non-commander mains, backups) are pairwise disjoint and together hold every
\* stored entry of the team exactly once, and the five counts of
\* get_team_counts add up to the number of the team's entries.
C30_BucketsPartition ==
    \A e \in DOMAIN events, team \in Teams :
        LET b    == get_roster(rosters, e, team)
            n    == get_team_counts(rosters, events[e], team)
            rows == {i \in DOMAIN rosters :
                        rosters[i].event_id = e /\ rosters[i].team = team}
            B    == <<b.commanders_sa, b.mains_sa, b.commanders_sb, b.mains_sb, b.backups>>
        IN  /\ \A i, j \in 1..5 : i # j => B[i] \cap B[j] = {}
            /\ UNION {B[i] : i \in 1..5} = {rosters[i].user_id : i \in rows}
            /\ Cardinality(B[1]) + Cardinality(B[2]) + Cardinality(B[3])
                  + Cardinality(B[4]) + Cardinality(B[5]) = Cardinality(rows)
            /\ n.commanders_sa + n.mains_sa + n.commanders_sb + n.mains_sb + n.backups
                  = Cardinality(rows)

\* C30 witness: a promotion has just moved a user from the backups to the
\* non-commander mains of a squad whose commander bucket holds the team's
\* other entry.
C30_Witness ==
    /\ last.op = "promote" /\ last.uid # 0
    /\ \E e \in DOMAIN events, team \in Teams, sq \in Squads :
          /\ \E i \in NonCommanderMains(rosters, e, team, sq) :
                rosters[i].user_id = last.uid
          /\ Commanders(rosters, e, team, sq) # {}

\* --------------------------------------------------------------------- C31
\* A step that promotes a backup takes, among the backups of the team with the
\* promoted row's joined_at, the one that comes first in rowid order.
C31_Step ==
    (rosters' # rosters /\ last'.uid # 0) =>
        \A i \in DOMAIN rosters :
            (rosters[i].user_id = last'.uid /\ rosters[i].slot_type = "backup") =>
                \A j \in Backups(rosters, rosters[i].event_id, rosters[i].team) :
                    rosters[j].joined_at = rosters[i].joined_at => i <= j

\* C31: when backups of a team have equal joined_at, a promotion (by Leave or
\* by a manager) takes the one whose row was inserted first.
C31_TieInsertedFirst == [][C31_Step]_vars

\* --------------------------------------------------------------------- C32
\* The step of a Leave that raises after its DELETE (before or after the
\* promotion) or of a reset that raises while it awaits Discord leaves the
\* rosters and events tables as they were.
C32_Step ==
    (/\ last'.op = "failed"
     /\ \/ \E e \in EventIds, u \in Players, at \in FailPoints : leave_fails(e, u, at)
        \/ reset_fails)
        => rosters' = rosters /\ events' = events

\* C32: a handler that raises after it has written and before its `with db()`
\* block ends commits none of its writes: the store equals its state before
\* the operation, and neither a deletion without its promotion nor a reset
\* without its status change is persisted.
C32_FailedHandlerRolledBack == [][C32_Step]_vars

\* C32 witness: a Leave of a main has just failed while a backup of its team
\* was waiting for the place: the main is still there, the backup still a backup.
C32_Witness ==
    /\ last.op = "failed" /\ last.user # 0
    /\ \E x, y \in RowsOf(rosters) :
          /\ x.user_id = last.user /\ x.slot_type = "main" /\ x.is_commander = 0
          /\ y.team = x.team /\ y.slot_type = "backup"

\* --------------------------------------------------------------------- C33
\* C33: every stored entry is a main or a backup; its squad is empty exactly
\* when it is a backup and is SA or SB when it is a main; it is a commander
\* only when it is a main.
C33_EntryShape ==
    \A x \in RowsOf(rosters) :
        /\ x.slot_type \in {"main", "backup"}
        /\ x.squad = NULL <=> x.slot_type = "backup"
        /\ x.slot_type = "main" => x.squad \in Squads
        /\ x.is_commander \in {0, 1}
        /\ x.is_commander = 1 => x.slot_type = "main"

\* C33 witness: /event_unsetcommander has just demoted a commander to the
\* backups, next to a main of the same team.
C33_Witness ==
    /\ last.op = "event_unsetcommander"
    /\ \E x, y \in RowsOf(rosters) :
          /\ x.user_id = last.user /\ x.slot_type = "backup"
          /\ y.team = x.team /\ y.slot_type = "main"

\* --------------------------------------------------------------------- C34
\* C34: in every event that /event_create accepted, every team and every
\* squad, commanders plus non-commander mains never exceed the squad's size.
C34_OccupancyWithinSize ==
    \A e \in DOMAIN events, team \in Teams, sq \in Squads :
        Cardinality(Commanders(rosters, e, team, sq))
          + Cardinality(NonCommanderMains(rosters, e, team, sq))
            <= squadSize(events[e], sq)

\* --------------------------------------------------------------------- C35
\* C35: in an event with teams = 1 no entry has team B: every entry belongs to
\* a team of ["A", "B"][:teams], the teams the roster view and the export show.
C35_OneTeamOnlyA ==
    \A e \in DOMAIN events, x \in RowsOf(rosters) :
        (x.event_id = e /\ events[e].teams = 1) => x.team = "A"

\* --------------------------------------------------------------------- C36
\* After a step of /event_unsetcommander that turns a commander into a backup,
\* the commander's former squad is at its cap and promote_one_non_commander
\* leaves the table as it is.
C36_Step ==
    (rosters' # rosters /\ last'.op = "event_unsetcommander") =>
        \A i \in DOMAIN rosters :
            (/\ rosters[i].user_id = last'.user
             /\ rosters[i].is_commander = 1
             /\ \E x \in Entries(rosters', rosters[i].event_id, last'.user) :
                   x.slot_type = "backup") =>
                LET e  == rosters[i].event_id
                    tm == rosters[i].team
                    sq == rosters[i].squad
                IN  /\ Cardinality(NonCommanderMains(rosters', e, tm, sq))
                          >= nonCommanderCap(events[e], sq)
                    /\ promote_one_non_commander(rosters', events[e], tm, sq)
                          = {Outcome(rosters', "", "none", FALSE)}

\* C36: whenever /event_unsetcommander demotes its target to the backups, the
\* target's squad holds at least non_commander_cap non-commander mains right
\* afterwards, so that promote_one_non_commander for that team and squad
\* promotes nobody at that moment.
C36_DemotionLeavesNoVacancy == [][C36_Step]_vars

\* C36 witness: a commander has just been demoted to the backups of a team
\* whose squad has a place for a non-commander main, and that place is taken.
C36_Witness ==
    /\ last.op = "event_unsetcommander"
    /\ \E e \in DOMAIN events, x \in RowsOf(rosters), sq \in Squads :
          /\ x \in Entries(rosters, e, last.user) /\ x.slot_type = "backup"
          /\ nonCommanderCap(events[e], sq) >= 1
          /\ Cardinality(NonCommanderMains(rosters, e, x.team, sq))
                = nonCommanderCap(events[e], sq)

\* --------------------------------------------------------------------- C37
\* The rows of r other than the entry of user u in event e, in table order.
OtherEntries(r, e, u) ==
    LET Other(x) == ~(x.event_id = e /\ x.user_id = u)
    IN SelectSeq(r, Other)

\* What /event_setcommander and /event_unsetcommander would write in the
\* current state, whatever their arguments and whether they succeed or reply
\* with a rejection: the entries of the users other than the target stay.
C37_Decision ==
    \A e \in DOMAIN events, team \in Teams, u \in Players :
        /\ \A sq \in Squads :
              OtherEntries(setcommander_txn(rosters, events[e], team, sq, u, now).r, e, u)
                = OtherEntries(rosters, e, u)
        /\ \A d \in BOOLEAN :
              OtherEntries(unsetcommander_txn(rosters, events[e], team, u, d).r, e, u)
                = OtherEntries(rosters, e, u)

\* The step of either handler leaves the events table (status included) and
\* the entries of the other users as they were.
C37_Step ==
    (last' # last /\ last'.op \in {"event_setcommander", "event_unsetcommander"}) =>
        /\ events' = events
        /\ \A e \in DOMAIN events :
              OtherEntries(rosters', e, last'.user) = OtherEntries(rosters, e, last'.user)

\* C37: /event_setcommander and /event_unsetcommander, successful or rejected,
\* never create, delete or modify the entry of a user other than their target
\* and never change an event's status.
C37_CommanderFrame == []C37_Decision /\ [][C37_Step]_vars

\* C37 witness: /event_setcommander has just made its target a commander while
\* another user holds an entry in the same team.
C37_Witness ==
    /\ last.op = "event_setcommander"
    /\ \E x, y \in RowsOf(rosters) :
          /\ x.user_id = last.user /\ x.is_commander = 1
          /\ y.user_id # last.user /\ y.team = x.team /\ y.event_id = x.event_id

\* --------------------------------------------------------------------- C38
\* An actor with the Manage Server permission, a recorded manager of the event
\* or its creator, read off the tables.
Privileged(a, e) ==
    \/ a \in Admins
    \/ <<e, a>> \in managers
    \/ events[e].created_by = a

\* A request (command or button) of actor a for Lock, Unlock, Promote, Reset,
\* AssignCommander or UnassignCommander on event e.
ManagerRequest(e, a) ==
    \/ \E st \in {"open", "locked"} : set_event_status(e, a, st)
    \/ \E team \in Teams, sq \in Squads : promote(e, a, team, sq)
    \/ \E team \in Teams, sq \in Squads : MgrPromote(e, a, team, sq)
    \/ \E c \in BOOLEAN : event_reset(e, a, c)
    \/ \E team \in Teams, sq \in Squads, u \in Players :
          event_setcommander(e, a, team, sq, u)
    \/ \E team \in Teams, u \in Players, d \in BOOLEAN :
          event_unsetcommander(e, a, team, u, d)

\* No step that changes a table or opens a transaction is the step of such a
\* request by an actor who is not privileged.
C38_Step ==
    (<<rosters, events, txn>>' # <<rosters, events, txn>>) =>
        \A e \in DOMAIN events, a \in Users :
            ~Privileged(a, e) => ~ManagerRequest(e, a)

\* C38: a Lock, Unlock, Promote, Reset, AssignCommander or UnassignCommander
\* request of an actor who is neither manager or creator of the event nor holds
\* Manage Server leaves the event's status and every roster entry unchanged.
C38_UnprivilegedNoEffect == [][C38_Step]_vars

\* C38 witness: a locked event in which a member without privileges waits as
\* a backup while a place for a non-commander main of the team is free, so that
\* a Promote, an Unlock or a Reset would change the tables.
C38_Witness ==
    \E e \in DOMAIN events, a \in Users, x \in RowsOf(rosters) :
        /\ ~Privileged(a, e)
        /\ events[e].status = "locked"
        /\ x \in Entries(rosters, e, a) /\ x.slot_type = "backup"
        /\ \E sq \in Squads : HasRoom(rosters, e, x.team, sq)

\* --------------------------------------------------------------------- C39
\* C39: for an event bound to a display channel the refreshes of interleaved
\* handlers leave at most one live roster message in the channel, and a stored
\* display_message_id is the id of that one message.
C39_OneLiveMessage ==
    /\ Cardinality(channel) <= 1
    /\ \A e \in DOMAIN events :
          events[e].display_message_id # 0 =>
              channel = {events[e].display_message_id}

\* --------------------------------------------------------------------- C40
\* A step that writes auto_refresh_last_epoch (the task has refreshed) happens
\* on the configured weekday in the configured hour of the event's time zone.
C40_Step ==
    \A e \in DOMAIN events :
        (/\ e \in DOMAIN events'
         /\ events'[e].auto_refresh_last_epoch # events[e].auto_refresh_last_epoch) =>
            LET local == now_local(now, events[e].auto_refresh_tz)
            IN  /\ map_weekday_name(local) = events[e].auto_refresh_day
                /\ hour_of(local) = events[e].auto_refresh_hour

\* C40: the weekly refresh task refreshes an event only when, in the event's
\* time zone, the weekday is the configured day and the hour is the configured
\* hour h, for every h in 0..23 that /event_setautorefresh accepts (hour 0
\* included).
C40_RefreshAtConfiguredHour == [][C40_Step]_vars

====
